---- MODULE Spec2Model ----
(***************************************************************************)
(* bazel-bench: the benchmark runner and the summary (benchmark.py), the   *)
(* Bazel invoker (utils/bazel.py), the argument parsers                    *)
(* (utils/bazel_args_parser.py) and the samples (utils/values.py) as state *)
(* machines.                                                               *)
(*                                                                         *)
(* A token (a command, a flag, a target, a path) is a sequence of          *)
(* one-character strings, so that startswith, slicing and integer parsing  *)
(* are computed on the characters as the Python code computes them.        *)
(***************************************************************************)
EXTENDS Integers, Sequences, FiniteSets, TLC

\* ------------------------------------------------------------------ bounds
MaxRuns == 2        \* largest repetition count of a unit
MaxOpts == 2        \* longest caller option list of a unit
MaxCommands == 2    \* commands issued on one directly used Bazel instance
MaxTime == 1        \* largest value of a wall / cpu / system counter
MaxArgs == 4        \* longest flat token list given to the parser
MaxEvents == 3      \* most events in one build event file
MaxObs == 3         \* most observations in one sample
MaxKeys == 2        \* most (bazel commit, project commit) keys in one summary
MaxUnits == 2       \* most units in one config file

\* --------------------------------------------------------- string helpers
\* a prefix test that takes one dash for a flag marker
StartsWithDash(tok) ==
  /\ Len(tok) >= 1
  /\ tok[1] = "-"

\* str.startswith('--')                       (bazel_args_parser.py:123)
StartsWithDashDash(tok) ==
  /\ Len(tok) >= 2
  /\ tok[1] = "-"
  /\ tok[2] = "-"

\* list slice a[k:] for a 0-based k, as a 1-based sequence
SliceFrom(a, k) == SubSeq(a, k + 1, Len(a))

\* list slice a[:-n]
DropLast(a, n) == SubSeq(a, 1, Len(a) - n)

DigitChars == <<"0", "1", "2", "3", "4", "5", "6", "7", "8", "9">>

DigitValue(ch) == (CHOOSE k \in 1..10 : DigitChars[k] = ch) - 1

IsDigits(s) == Len(s) > 0 /\ \A k \in 1..Len(s) : \E d \in 1..10 : DigitChars[d] = s[k]

\* int() skips surrounding whitespace
RECURSIVE StripNewlines(_)
StripNewlines(s) ==
  IF Len(s) > 0 /\ s[Len(s)] = "\n" THEN StripNewlines(DropLast(s, 1)) ELSE s

RECURSIVE DigitsToInt(_)
DigitsToInt(s) ==
  IF Len(s) = 0 THEN 0
  ELSE 10 * DigitsToInt(DropLast(s, 1)) + DigitValue(s[Len(s)])

\* (int)(text): the decimal value of text; -1 stands for the ValueError int()
\* raises on anything else
IntOf(s) == IF IsDigits(StripNewlines(s)) THEN DigitsToInt(StripNewlines(s)) ELSE -1

\* '%s' % n for a non-negative integer n
RECURSIVE IntToStr(_)
IntToStr(n) ==
  IF n < 10 THEN <<DigitChars[n + 1]>>
  ELSE IntToStr(n \div 10) \o <<DigitChars[(n % 10) + 1]>>

RECURSIVE SeqMin(_)
SeqMin(s) ==
  IF Len(s) = 1 THEN s[1]
  ELSE LET m == SeqMin(Tail(s)) IN IF s[1] <= m THEN s[1] ELSE m

SeqsUpTo(S, n) == UNION {[1..k -> S] : k \in 0..n}

\* ----------------------------------------------------------------- tokens
BUILD == <<"b", "u", "i", "l", "d">>
TEST == <<"t", "e", "s", "t">>
CLEAN == <<"c", "l", "e", "a", "n">>
SHUTDOWN == <<"s", "h", "u", "t", "d", "o", "w", "n">>
NOSTAMP == <<"-", "-", "n", "o", "s", "t", "a", "m", "p">>
NOSHOW_PROGRESS ==
  <<"-", "-", "n", "o", "s", "h", "o", "w", "_", "p", "r", "o", "g", "r", "e", "s", "s">>
COLOR_NO == <<"-", "-", "c", "o", "l", "o", "r", "=", "n", "o">>
KEEP_GOING == <<"-", "-", "k">>
TARGET_ALL == <<"/", "/", ":", "a", "l", "l">>

GENERATE_JSON_TRACE_PROFILE ==
  <<"-", "-", "e", "x", "p", "e", "r", "i", "m", "e", "n", "t", "a", "l", "_",
    "g", "e", "n", "e", "r", "a", "t", "e", "_", "j", "s", "o", "n", "_",
    "t", "r", "a", "c", "e", "_", "p", "r", "o", "f", "i", "l", "e">>
PROFILE_CPU_USAGE ==
  <<"-", "-", "e", "x", "p", "e", "r", "i", "m", "e", "n", "t", "a", "l", "_",
    "p", "r", "o", "f", "i", "l", "e", "_", "c", "p", "u", "_", "u", "s", "a", "g", "e">>
JSON_TRACE_COMPRESSION ==
  <<"-", "-", "e", "x", "p", "e", "r", "i", "m", "e", "n", "t", "a", "l", "_",
    "j", "s", "o", "n", "_", "t", "r", "a", "c", "e", "_",
    "c", "o", "m", "p", "r", "e", "s", "s", "i", "o", "n">>
PROFILE_EQ == <<"-", "-", "p", "r", "o", "f", "i", "l", "e", "=">>
OF_SEP == <<"_", "o", "f", "_">>
PROFILE_GZ == <<".", "p", "r", "o", "f", "i", "l", "e", ".", "g", "z">>

\* ------------------------------------------------------------ input sets
Commands == {BUILD, TEST}
CallerFlags == {COLOR_NO, KEEP_GOING}
OptionLists == SeqsUpTo(CallerFlags, MaxOpts)
TargetLists == {<<>>, <<TARGET_ALL>>}
ExitCodes == {0, 137}
\* an absent (None) identifier and an empty one are both falsy: <<>>
BazelIdentifiers == {<<>>, <<"a", "/", "b">>}
ProjectCommits == {<<>>, <<"p">>}
DataDirectory == <<"d">>
BazelBenchUid == <<"u">>
ParserTokens ==
  {BUILD, COLOR_NO, KEEP_GOING, <<"-", "-">>, <<"-", "x">>, TARGET_ALL, <<>>}
ParserInputs == SeqsUpTo(ParserTokens, MaxArgs)

\* the events of a build event file, as json.loads gives them: dicts
BEP_FILE == <<"-", "-", "b", "e", "p">>
Section(label, chunk) == [sectionLabel |-> label, chunkList |-> [chunk |-> chunk]]
OptionSection == [sectionLabel |-> "command options", optionList |-> <<>>]
UnlabelledSection == [chunkList |-> [chunk |-> <<CLEAN>>]]
CommandLineEvent(label, sections) ==
  [structuredCommandLine |-> [commandLineLabel |-> label, sections |-> sections]]
UnlabelledCommandLineEvent(sections) ==
  [structuredCommandLine |-> [sections |-> sections]]
OptionsParsedEvent(explicit) == [optionsParsed |-> [explicitCmdLine |-> explicit]]
StartedEvent == [started |-> [command |-> SHUTDOWN]]
BuildEvents ==
  {CommandLineEvent("canonical",
     <<UnlabelledSection, Section("other", <<CLEAN>>), Section("command", <<BUILD>>),
       OptionSection, Section("residual", <<TARGET_ALL, KEEP_GOING>>)>>),
   CommandLineEvent("canonical", <<Section("command", <<TEST>>)>>),
   CommandLineEvent("canonical", <<OptionSection, Section("residual", <<TARGET_ALL>>)>>),
   CommandLineEvent("original",
     <<Section("command", <<CLEAN>>), Section("residual", <<BEP_FILE>>)>>),
   UnlabelledCommandLineEvent(<<Section("command", <<SHUTDOWN>>)>>),
   OptionsParsedEvent(<<>>),
   OptionsParsedEvent(<<BEP_FILE>>),
   OptionsParsedEvent(<<KEEP_GOING, COLOR_NO, BEP_FILE>>),
   OptionsParsedEvent(<<BEP_FILE, KEEP_GOING>>),
   StartedEvent}
EventLogs == SeqsUpTo(BuildEvents, MaxEvents)
\* the flat lists parsed beside an event log
FlatLists == {<<>>, <<BUILD, KEEP_GOING, TARGET_ALL>>}

VARIABLES
  pc,          \* control point of the program
  unit,        \* the arguments of the running _run_benchmark call
  env_exit,    \* the exit code the tool gives to the measured command of run k
  cwd,         \* the process working directory
  i,           \* _run_benchmark: the loop variable
  collected,   \* _run_benchmark: the list of run records
  rb_result,   \* what _run_benchmark returned
  raised,      \* the exception that left the last call ("none": none)
  sr,          \* the frame of the running _single_run call (given: the
               \* options argument as passed, options: the local variable)
  bazel,       \* the Bazel instance in use: its _pid (0: None)
  instances,   \* how many Bazel instances were constructed
  cmd,         \* the frame of the running Bazel.command call
  ret,         \* what the last Bazel.command call returned
  ncommands,   \* commands called on the directly used instance
  times,       \* the wall clock and the server's cpu / system counters
  events,      \* what the running command did, in order
  calls,       \* the tool invocations launched, in order
  p_args,      \* the token list given to the parser
  p_out,       \* the outcome of the parser
  e_events,    \* the events of the build event file, one per line
  e_out,       \* the outcome of the build event parser
  v_items,     \* Values: self._items
  v_base,      \* Values.pval: base_values
  v_out,       \* what the last Values.pval call returned
  cs_data,     \* create_summary: data, its (key, collected) pairs in order
  cs_key,      \* create_summary: the position of the key in process (0: none)
  cs_metric,   \* create_summary: the position of the metric in process
  cs_non_zero_runs,  \* create_summary: non_zero_runs
  cs_builder,  \* create_summary: summary_builder
  cs_last,     \* create_summary: last_collected
  cs_call,     \* create_summary: the method called on a Values at line 419
  cs_out,      \* what create_summary returned
  cf_in,       \* BenchmarkConfig: the classmethod called and its arguments
  cf_out,      \* BenchmarkConfig: what the classmethod returned or raised
  m_flags,     \* main: FLAGS, argv and the environment of this execution
  m_config,    \* main: config, the BenchmarkConfig
  m_k,         \* main: the position of the unit in process (0: none)
  m_data,      \* main: data, its (key, collected) pairs in order
  m_csv_data,  \* main: csv_data, its (key, entry) pairs in order
  m_log,       \* main: what main did outside the process, in order
  pf_in,       \* json_profile_filename: the arguments of two calls
  pf_out       \* json_profile_filename: what the two calls returned

vars ==
  <<pc, unit, env_exit, cwd, i, collected, rb_result, raised, sr,
    bazel, instances, cmd, ret, ncommands, times, events, calls, p_args, p_out,
    e_events, e_out, v_items, v_base, v_out,
    cs_data, cs_key, cs_metric, cs_non_zero_runs, cs_builder, cs_last, cs_call, cs_out,
    cf_in, cf_out, m_flags, m_config, m_k, m_data, m_csv_data, m_log, pf_in, pf_out>>

runner_vars == <<unit, env_exit, cwd, i, collected, rb_result, sr>>
invoker_vars == <<cmd, ret, ncommands, times, events, calls>>
parser_vars == <<p_args, p_out>>
event_vars == <<e_events, e_out>>
values_vars == <<v_items, v_base, v_out>>
summary_vars ==
  <<cs_data, cs_key, cs_metric, cs_non_zero_runs, cs_builder, cs_last, cs_call, cs_out>>
stats_vars == <<values_vars, summary_vars>>
config_vars == <<cf_in, cf_out>>
main_vars == <<m_flags, m_config, m_k, m_data, m_csv_data, m_log>>
profile_vars == <<pf_in, pf_out>>
entry_vars == <<config_vars, main_vars, profile_vars>>

\* =================================================== bazel_args_parser.py
\* the loop with the first other token taken for a separator and left out
RECURSIVE ParseLoopSkipping(_, _, _)
ParseLoopSkipping(args, k, options) ==
  IF k >= Len(args) THEN [expressions |-> <<>>, options |-> options]
  ELSE IF ~StartsWithDashDash(args[k + 1])
    THEN [expressions |-> SliceFrom(args, k + 1), options |-> options]
    ELSE ParseLoopSkipping(args, k + 1, Append(options, args[k + 1]))

\* the loop of lines 122-126, at 0-based index k with the options so far
RECURSIVE ParseLoop(_, _, _)
ParseLoop(args, k, options) ==
  IF k >= Len(args) THEN [expressions |-> <<>>, options |-> options]
  ELSE IF ~StartsWithDashDash(args[k + 1])
    THEN [expressions |-> SliceFrom(args, k), options |-> options]
    ELSE ParseLoop(args, k + 1, Append(options, args[k + 1]))

parse_bazel_args_from_canonical_str(args) ==
  IF Len(args) = 0 THEN [state |-> "raised", exception |-> "IndexError"]
  ELSE LET r == ParseLoop(args, 1, <<>>)
       IN [state |-> "returned",
           command |-> args[1],
           expressions |-> r.expressions,
           options |-> r.options]

NotCalled == [state |-> "not_called"]

Parse ==
  /\ p_out = NotCalled
  /\ p_out' = parse_bazel_args_from_canonical_str(p_args)
  /\ UNCHANGED <<pc, raised, bazel, instances, p_args>>
  /\ UNCHANGED runner_vars
  /\ UNCHANGED invoker_vars
  /\ UNCHANGED event_vars
  /\ UNCHANGED entry_vars
  /\ UNCHANGED stats_vars

\* _to_str_list, lines 27-29: str() of a str is that str
str(x) == x
to_str_list(unicode_str_list) ==
  [k \in 1..Len(unicode_str_list) |-> str(unicode_str_list[k])]

Ok(value) == [ok |-> TRUE, value |-> value]
Raises(exception) == [ok |-> FALSE, exception |-> exception]

\* lines 46-48
IsCanonicalCommandLine(x) ==
  /\ "structuredCommandLine" \in DOMAIN x
  /\ "commandLineLabel" \in DOMAIN x.structuredCommandLine
  /\ x.structuredCommandLine.commandLineLabel = "canonical"

\* lines 53-54
HasSectionLabel(x, section_label) ==
  /\ "sectionLabel" \in DOMAIN x
  /\ x.sectionLabel = section_label

\* _get_section_content, lines 44-63, of the events log: [0] of an empty list
\* raises IndexError
get_section_content(log, section_label) ==
  LET canonical == SelectSeq(log, IsCanonicalCommandLine)
  IN IF canonical = <<>> THEN Raises("IndexError")
     ELSE LET IsLabelled(x) == HasSectionLabel(x, section_label)
              sections == SelectSeq(canonical[1].structuredCommandLine.sections, IsLabelled)
          IN IF sections = <<>> THEN Ok(<<>>)
             ELSE Ok(sections[1].chunkList.chunk)

\* _extract_residual_expressions, lines 66-68
extract_residual_expressions(log) ==
  LET residual_expressions == get_section_content(log, "residual")
  IN IF residual_expressions.ok THEN Ok(to_str_list(residual_expressions.value))
     ELSE residual_expressions

\* a missing command taken for an empty one
extract_command_lenient(log) ==
  LET content == get_section_content(log, "command")
  IN IF ~content.ok \/ content.value = <<>> THEN Ok(<<>>)
     ELSE Ok(content.value[1])

\* _extract_command, lines 71-74
extract_command(log) ==
  LET content == get_section_content(log, "command")
  IN IF ~content.ok THEN content
     ELSE IF content.value = <<>> THEN Raises("IndexError")
     ELSE Ok(content.value[1])

\* the explicit command line kept whole
extract_options_whole(log) ==
  LET HasOptionsParsed(x) == "optionsParsed" \in DOMAIN x
      optionsParsed == SelectSeq(log, HasOptionsParsed)
  IN IF optionsParsed = <<>> THEN Raises("IndexError")
     ELSE Ok(to_str_list(optionsParsed[1].optionsParsed.explicitCmdLine))

\* _extract_options, lines 77-85
extract_options(log) ==
  LET HasOptionsParsed(x) == "optionsParsed" \in DOMAIN x
      optionsParsed == SelectSeq(log, HasOptionsParsed)
  IN IF optionsParsed = <<>> THEN Raises("IndexError")
     ELSE Ok(to_str_list(DropLast(optionsParsed[1].optionsParsed.explicitCmdLine, 1)))

\* parse_bazel_args_from_build_event, lines 94-98: the tuple is evaluated
\* from the left and the first exception leaves the function
parse_bazel_args_from_build_event(log) ==
  LET command == extract_command(log)
      expressions == extract_residual_expressions(log)
      options == extract_options(log)
  IN IF ~command.ok THEN [state |-> "raised", exception |-> command.exception]
     ELSE IF ~expressions.ok
       THEN [state |-> "raised", exception |-> expressions.exception]
     ELSE IF ~options.ok THEN [state |-> "raised", exception |-> options.exception]
     ELSE [state |-> "returned",
           command |-> command.value,
           expressions |-> expressions.value,
           options |-> options.value]

ParseBuildEvent ==
  /\ e_out = NotCalled
  /\ e_out' = parse_bazel_args_from_build_event(e_events)
  /\ UNCHANGED <<pc, raised, bazel, instances, e_events>>
  /\ UNCHANGED runner_vars
  /\ UNCHANGED invoker_vars
  /\ UNCHANGED parser_vars
  /\ UNCHANGED entry_vars
  /\ UNCHANGED stats_vars

\* ============================================================ benchmark.py
\* str.replace(old, new) for one-character old and new
Replace(s, old, new) == [k \in 1..Len(s) |-> IF s[k] = old THEN new ELSE s[k]]

json_profile_filename(data_directory, bazel_bench_uid, bazel_commit, project_commit, run_number, total_runs) ==
  data_directory \o <<"/">> \o bazel_bench_uid \o <<"_">> \o bazel_commit
    \o <<"_">> \o project_commit \o <<"_">> \o IntToStr(run_number)
    \o OF_SEP \o IntToStr(total_runs) \o PROFILE_GZ

construct_json_profile_flags(out_file_path) ==
  <<GENERATE_JSON_TRACE_PROFILE, PROFILE_CPU_USAGE, JSON_TRACE_COMPRESSION,
    PROFILE_EQ \o out_file_path>>

\* _single_run, lines 255-256: the options of the measured command
single_run_options(command, options) ==
  IF command = BUILD THEN options \o <<NOSTAMP, NOSHOW_PROGRESS, COLOR_NO>>
  ELSE options

\* _run_benchmark, lines 332-341: the options handed to run run_number
maybe_include_json_profile_flags(u, run_number) ==
  IF u.collect_json_profile
  THEN u.options \o construct_json_profile_flags(
         json_profile_filename(DataDirectory, BazelBenchUid,
                               Replace(u.bazel_identifier, "/", "_"),
                               u.project_commit, run_number, u.runs))
  ELSE u.options

\* handle_json_profiles_aggr, lines 376-380: the profiles looked up for one
\* bazel_commit and one project_commit
profiles_filenames(data_directory, output_prefix, bazel_commit, project_commit, runs) ==
  [run_number \in 1..runs |->
     json_profile_filename(data_directory, output_prefix, bazel_commit,
                           project_commit, run_number, runs)]

\* the caller's list after it was handed on and then extended in place
options_extended(options, added) == options \o added

\* the caller's list options after a run: line 332 extends a copy of it
\* (options[:]) and line 256 binds a new list (options + [...]), so what is
\* added reaches neither
options_after(options, added) == options

\* def command(self, command, args=None): the parameters after self
CommandParameters == <<"command", "args">>

\* Python binds a call when every positional argument fills a parameter and
\* every keyword names a parameter that no positional argument filled; the
\* parameter command has no default.  Otherwise the call raises TypeError
\* before the body runs.
CallBinds(npositional, keywords) ==
  /\ npositional <= Len(CommandParameters)
  /\ \A kw \in keywords :
       \E k \in (npositional + 1)..Len(CommandParameters) : CommandParameters[k] = kw
  /\ npositional >= 1 \/ "command" \in keywords

\* bazel.command(command, args=..., collect_memory=...), lines 257-258
SingleRunKeywords == {"args", "collect_memory"}

NoUnit ==
  [runs |-> 0, collect_memory |-> FALSE, command |-> <<>>, options |-> <<>>,
   targets |-> <<>>, prefetch_ext_deps |-> FALSE, collect_json_profile |-> FALSE,
   bazel_identifier |-> <<>>, project_commit |-> <<>>]

NoSingleRun ==
  [from |-> "none", command |-> <<>>, given |-> <<>>, options |-> <<>>,
   targets |-> <<>>, collect_memory |-> FALSE, args |-> <<>>]

NoResult == [state |-> "not_returned"]

\* main calls _run_benchmark (lines 630-644); lines 314-318
run_benchmark_Call ==
  /\ pc = "idle"
  /\ \E runs \in 0..MaxRuns, collect_memory \in BOOLEAN, command \in Commands,
        options \in OptionLists, targets \in TargetLists,
        prefetch_ext_deps \in BOOLEAN, collect_json_profile \in BOOLEAN,
        bazel_identifier \in BazelIdentifiers, project_commit \in ProjectCommits :
       unit' = [runs |-> runs, collect_memory |-> collect_memory,
                command |-> command, options |-> options, targets |-> targets,
                prefetch_ext_deps |-> prefetch_ext_deps,
                collect_json_profile |-> collect_json_profile,
                bazel_identifier |-> bazel_identifier,
                project_commit |-> project_commit]
  /\ env_exit' \in [1..unit'.runs -> ExitCodes]
  /\ collected' = <<>>
  /\ cwd' = "project_path"
  /\ pc' = "rb_prefetch"
  /\ UNCHANGED <<i, rb_result, raised, sr, bazel, instances>>
  /\ UNCHANGED invoker_vars
  /\ UNCHANGED parser_vars
  /\ UNCHANGED event_vars
  /\ UNCHANGED entry_vars
  /\ UNCHANGED stats_vars

\* lines 320-323: the unmeasured run, with the unit's own options
run_benchmark_Prefetch ==
  /\ pc = "rb_prefetch"
  /\ unit.prefetch_ext_deps
  /\ sr' = [from |-> "prefetch", command |-> unit.command,
            given |-> unit.options, options |-> unit.options,
            targets |-> unit.targets,
            collect_memory |-> unit.collect_memory, args |-> <<>>]
  /\ pc' = "sr_enter"
  /\ UNCHANGED <<unit, env_exit, cwd, i, collected, rb_result, raised, bazel, instances>>
  /\ UNCHANGED invoker_vars
  /\ UNCHANGED parser_vars
  /\ UNCHANGED event_vars
  /\ UNCHANGED entry_vars
  /\ UNCHANGED stats_vars

\* lines 320-329: no prefetch; the loop starts at run 1
run_benchmark_NoPrefetch ==
  /\ pc = "rb_prefetch"
  /\ ~unit.prefetch_ext_deps
  /\ i' = 1
  /\ pc' = "rb_loop"
  /\ UNCHANGED <<unit, env_exit, cwd, collected, rb_result, raised, sr, bazel, instances>>
  /\ UNCHANGED invoker_vars
  /\ UNCHANGED parser_vars
  /\ UNCHANGED event_vars
  /\ UNCHANGED entry_vars
  /\ UNCHANGED stats_vars

\* lines 333-337: a falsy identifier fails its assert
ProfileAssertsHold(u) ==
  u.collect_json_profile => (u.bazel_identifier # <<>> /\ u.project_commit # <<>>)

\* lines 329-344: run i starts
run_benchmark_Run ==
  /\ pc = "rb_loop"
  /\ i <= unit.runs
  /\ ProfileAssertsHold(unit)
  /\ sr' = [from |-> "loop", command |-> unit.command,
            given |-> maybe_include_json_profile_flags(unit, i),
            options |-> maybe_include_json_profile_flags(unit, i),
            targets |-> unit.targets,
            collect_memory |-> unit.collect_memory, args |-> <<>>]
  /\ unit' = [unit EXCEPT !.options =
                options_after(unit.options,
                              SliceFrom(maybe_include_json_profile_flags(unit, i),
                                        Len(unit.options)))]
  /\ pc' = "sr_enter"
  /\ UNCHANGED <<env_exit, cwd, i, collected, rb_result, raised, bazel, instances>>
  /\ UNCHANGED invoker_vars
  /\ UNCHANGED parser_vars
  /\ UNCHANGED event_vars
  /\ UNCHANGED entry_vars
  /\ UNCHANGED stats_vars

\* lines 333-337: the assert fails and AssertionError leaves _run_benchmark
run_benchmark_AssertFails ==
  /\ pc = "rb_loop"
  /\ i <= unit.runs
  /\ ~ProfileAssertsHold(unit)
  /\ raised' = "AssertionError"
  /\ pc' = "rb_raised"
  /\ UNCHANGED <<unit, env_exit, cwd, i, collected, rb_result, sr, bazel, instances>>
  /\ UNCHANGED invoker_vars
  /\ UNCHANGED parser_vars
  /\ UNCHANGED event_vars
  /\ UNCHANGED entry_vars
  /\ UNCHANGED stats_vars

\* line 346: the loop is over
run_benchmark_Return ==
  /\ pc = "rb_loop"
  /\ i > unit.runs
  /\ rb_result' = [state |-> "returned", collected |-> collected,
                   command |-> unit.command, targets |-> unit.targets,
                   options |-> unit.options]
  /\ pc' = "rb_returned"
  /\ UNCHANGED <<unit, env_exit, cwd, i, collected, raised, sr, bazel, instances>>
  /\ UNCHANGED invoker_vars
  /\ UNCHANGED parser_vars
  /\ UNCHANGED event_vars
  /\ UNCHANGED entry_vars
  /\ UNCHANGED stats_vars

\* _single_run, lines 249-256: a fresh Bazel instance, the build defaults
single_run_Enter ==
  /\ pc = "sr_enter"
  /\ bazel' = [pid |-> 0, pid_queries |-> 0]
  /\ instances' = instances + 1
  /\ sr' = [sr EXCEPT !.options = single_run_options(sr.command, sr.options)]
  /\ unit' = IF sr.from = "prefetch"
             THEN [unit EXCEPT !.options =
                     options_after(unit.options,
                                   SliceFrom(single_run_options(sr.command, sr.given),
                                             Len(sr.given)))]
             ELSE unit
  /\ pc' = "sr_call"
  /\ UNCHANGED <<env_exit, cwd, i, collected, rb_result, raised>>
  /\ UNCHANGED invoker_vars
  /\ UNCHANGED parser_vars
  /\ UNCHANGED event_vars
  /\ UNCHANGED entry_vars
  /\ UNCHANGED stats_vars

\* _single_run, lines 257-258: the arguments are evaluated and the call is
\* bound.  The call passes the keyword collect_memory, which Bazel.command
\* does not take: TypeError leaves _single_run and _run_benchmark, neither of
\* which catches it.  Lines 260-272 and 342 follow a return of this call.
single_run_Command ==
  /\ pc = "sr_call"
  /\ sr' = [sr EXCEPT !.args = sr.options \o sr.targets]
  /\ ~CallBinds(1, SingleRunKeywords)
  /\ raised' = "TypeError"
  /\ pc' = "rb_raised"
  /\ UNCHANGED <<unit, env_exit, cwd, i, collected, rb_result, bazel, instances>>
  /\ UNCHANGED invoker_vars
  /\ UNCHANGED parser_vars
  /\ UNCHANGED event_vars
  /\ UNCHANGED entry_vars
  /\ UNCHANGED stats_vars

\* ================================================================ bazel.py
HeapSampleCount == 5

\* what `bazel info server_pid` and `bazel info used-heap-size-after-gc` print
PidOutputs == {<<"7", "\n">>, <<"1", "2", "\n">>}
HeapOutputs == {<<"3", "M", "B", "\n">>, <<"1", "0", "M", "B", "\n">>}
DirectCommands == {BUILD, SHUTDOWN}
DirectArgs == {<<TARGET_ALL>>}

Times == [wall : 0..MaxTime, cpu : 0..MaxTime, system : 0..MaxTime]
ZeroTimes == [wall |-> 0, cpu |-> 0, system |-> 0]
\* the counters never run backwards
LaterTimes(t) ==
  {u \in Times : u.wall >= t.wall /\ u.cpu >= t.cpu /\ u.system >= t.system}

NoneValue == [none |-> TRUE]
NoReturn == [state |-> "not_returned"]
NoCommand ==
  [command |-> <<>>, args |-> <<>>, collect_memory |-> "absent",
   before |-> ZeroTimes, exit_status |-> 0, heap |-> <<>>,
   result |-> [started_at |-> 0]]

Event(e, t, n) == [e |-> e, t |-> t, n |-> n]

\* the shutdown test inverted
IsNotShutdown(command) == command # SHUTDOWN

\* line 79
IsShutdown(command) == command = SHUTDOWN

\* the subtraction the wrong way round
TimesDeltaReversed(after_times, before_times) ==
  [wall |-> before_times.wall - after_times.wall,
   cpu |-> before_times.cpu - after_times.cpu,
   system |-> before_times.system - after_times.system]

\* lines 83-84: result[kind] = after_times[kind] - before_times[kind]
TimesDelta(after_times, before_times) ==
  [wall |-> after_times.wall - before_times.wall,
   cpu |-> after_times.cpu - before_times.cpu,
   system |-> after_times.system - before_times.system]

\* the first sample instead of the smallest
FirstSample(samples) == samples[1]

\* line 88: min([...])
MemoryOf(samples) == SeqMin(samples)

\* _get_heap_size, lines 120-123: (int)(output[:-3])
get_heap_size(output) == IntOf(DropLast(output, 3))

\* a query on every call, whatever is cached
get_pid_uncached(b) ==
  {[ok |-> TRUE, pid |-> IntOf(o), queries |-> 1] : o \in PidOutputs}
  \cup {[ok |-> FALSE, pid |-> 0, queries |-> 1]}

\* _get_pid, lines 98-103: the cached pid, or one query whose output is parsed;
\* ok = FALSE: the query could not be spawned
get_pid(b) ==
  IF b.pid = 0
  THEN {[ok |-> TRUE, pid |-> IntOf(o), queries |-> 1] : o \in PidOutputs}
       \cup {[ok |-> FALSE, pid |-> 0, queries |-> 1]}
  ELSE {[ok |-> TRUE, pid |-> b.pid, queries |-> 0]}

\* __init__, lines 36-39; the clock and the counters stand anywhere
Bazel_init ==
  /\ pc = "idle"
  /\ bazel' = [pid |-> 0, pid_queries |-> 0]
  /\ instances' = instances + 1
  /\ times' \in Times
  /\ pc' = "b_ready"
  /\ UNCHANGED <<raised, cmd, ret, ncommands, events, calls>>
  /\ UNCHANGED runner_vars
  /\ UNCHANGED parser_vars
  /\ UNCHANGED event_vars
  /\ UNCHANGED entry_vars
  /\ UNCHANGED stats_vars

\* a call b.command(command, args) that may pass collect_memory=...; lines 55-60
Bazel_command_Call ==
  /\ pc = "b_ready"
  /\ ncommands < MaxCommands
  /\ ncommands' = ncommands + 1
  /\ events' = <<>>
  /\ ret' = NoReturn
  /\ \E command \in DirectCommands, args \in DirectArgs,
        collect_memory \in {"absent", "true", "false"} :
       LET keywords == IF collect_memory = "absent" THEN {} ELSE {"collect_memory"}
       IN IF CallBinds(2, keywords)
          THEN /\ cmd' = [NoCommand EXCEPT !.command = command, !.args = args,
                            !.collect_memory = collect_memory,
                            !.result = [started_at |-> times.wall]]
               /\ raised' = "none"
               /\ pc' = "c_before"
          ELSE /\ cmd' = [NoCommand EXCEPT !.command = command, !.args = args,
                            !.collect_memory = collect_memory]
               /\ raised' = "TypeError"
               /\ pc' = "b_ready"
  /\ UNCHANGED <<bazel, instances, times, calls>>
  /\ UNCHANGED runner_vars
  /\ UNCHANGED parser_vars
  /\ UNCHANGED event_vars
  /\ UNCHANGED entry_vars
  /\ UNCHANGED stats_vars

\* line 62: before_times = self._get_times()
Bazel_command_BeforeTimes ==
  /\ pc = "c_before"
  /\ \E g \in get_pid(bazel) :
       /\ bazel' = [pid |-> g.pid, pid_queries |-> bazel.pid_queries + g.queries]
       /\ IF g.ok
          THEN /\ cmd' = [cmd EXCEPT !.before = times]
               /\ events' = Append(events, Event("times", times, g.queries))
               /\ pc' = "c_launch"
               /\ UNCHANGED raised
          ELSE /\ raised' = "OSError"
               /\ pc' = "b_ready"
               /\ UNCHANGED <<cmd, events>>
  /\ UNCHANGED <<instances, ret, ncommands, times, calls>>
  /\ UNCHANGED runner_vars
  /\ UNCHANGED parser_vars
  /\ UNCHANGED event_vars
  /\ UNCHANGED entry_vars
  /\ UNCHANGED stats_vars

\* lines 64-76: the child runs to its exit; CalledProcessError is caught and
\* its return code kept
Bazel_command_Launch ==
  /\ pc = "c_launch"
  /\ \E code \in ExitCodes, t \in LaterTimes(times) :
       /\ times' = t
       /\ cmd' = [cmd EXCEPT !.exit_status = code]
       /\ events' = events \o <<Event("launch", times, 0), Event("exit", t, code)>>
  /\ calls' = Append(calls, [command |-> cmd.command, args |-> cmd.args])
  /\ pc' = "c_launched"
  /\ UNCHANGED <<bazel, instances, ret, ncommands, raised>>
  /\ UNCHANGED runner_vars
  /\ UNCHANGED parser_vars
  /\ UNCHANGED event_vars
  /\ UNCHANGED entry_vars
  /\ UNCHANGED stats_vars

\* lines 68-72: the binary cannot be spawned; OSError is no CalledProcessError
\* and leaves command
Bazel_command_LaunchFails ==
  /\ pc = "c_launch"
  /\ raised' = "OSError"
  /\ pc' = "b_ready"
  /\ UNCHANGED <<bazel, instances, cmd, ret, ncommands, times, events, calls>>
  /\ UNCHANGED runner_vars
  /\ UNCHANGED parser_vars
  /\ UNCHANGED event_vars
  /\ UNCHANGED entry_vars
  /\ UNCHANGED stats_vars

\* lines 79-80
Bazel_command_ReturnNone ==
  /\ pc = "c_launched"
  /\ IsShutdown(cmd.command)
  /\ ret' = NoneValue
  /\ pc' = "b_ready"
  /\ UNCHANGED <<bazel, instances, cmd, ncommands, times, events, calls, raised>>
  /\ UNCHANGED runner_vars
  /\ UNCHANGED parser_vars
  /\ UNCHANGED event_vars
  /\ UNCHANGED entry_vars
  /\ UNCHANGED stats_vars

\* lines 81-85: after_times, the deltas, the exit status
Bazel_command_AfterTimes ==
  /\ pc = "c_launched"
  /\ ~IsShutdown(cmd.command)
  /\ \E g \in get_pid(bazel) :
       /\ bazel' = [pid |-> g.pid, pid_queries |-> bazel.pid_queries + g.queries]
       /\ IF g.ok
          THEN /\ cmd' = [cmd EXCEPT !.result =
                            ("exit_status" :> cmd.exit_status)
                              @@ TimesDelta(times, cmd.before) @@ cmd.result]
               /\ events' = Append(events, Event("times", times, g.queries))
               /\ pc' = "c_heap"
               /\ UNCHANGED raised
          ELSE /\ raised' = "OSError"
               /\ pc' = "b_ready"
               /\ UNCHANGED <<cmd, events>>
  /\ UNCHANGED <<instances, ret, ncommands, times, calls>>
  /\ UNCHANGED runner_vars
  /\ UNCHANGED parser_vars
  /\ UNCHANGED event_vars
  /\ UNCHANGED entry_vars
  /\ UNCHANGED stats_vars

\* line 88: one self._get_heap_size() of the HeapSampleCount
Bazel_command_HeapSize ==
  /\ pc = "c_heap"
  /\ Len(cmd.heap) < HeapSampleCount
  /\ \E output \in HeapOutputs :
       /\ cmd' = [cmd EXCEPT !.heap = Append(cmd.heap, get_heap_size(output))]
       /\ events' = Append(events, Event("heap", times, get_heap_size(output)))
  /\ UNCHANGED <<pc, bazel, instances, ret, ncommands, times, calls, raised>>
  /\ UNCHANGED runner_vars
  /\ UNCHANGED parser_vars
  /\ UNCHANGED event_vars
  /\ UNCHANGED entry_vars
  /\ UNCHANGED stats_vars

\* line 88: a heap query cannot be spawned
Bazel_command_HeapSizeFails ==
  /\ pc = "c_heap"
  /\ Len(cmd.heap) < HeapSampleCount
  /\ raised' = "OSError"
  /\ pc' = "b_ready"
  /\ UNCHANGED <<bazel, instances, cmd, ret, ncommands, times, events, calls>>
  /\ UNCHANGED runner_vars
  /\ UNCHANGED parser_vars
  /\ UNCHANGED event_vars
  /\ UNCHANGED entry_vars
  /\ UNCHANGED stats_vars

\* lines 88-90
Bazel_command_Return ==
  /\ pc = "c_heap"
  /\ Len(cmd.heap) = HeapSampleCount
  /\ ret' = ("memory" :> MemoryOf(cmd.heap)) @@ cmd.result
  /\ pc' = "b_ready"
  /\ UNCHANGED <<bazel, instances, cmd, ncommands, times, events, calls, raised>>
  /\ UNCHANGED runner_vars
  /\ UNCHANGED parser_vars
  /\ UNCHANGED event_vars
  /\ UNCHANGED entry_vars
  /\ UNCHANGED stats_vars

\* =============================================================== values.py
Observations == {1, 10}
Samples == SeqsUpTo(Observations, MaxObs)

Abs(x) == IF x < 0 THEN -x ELSE x
Range(s) == {s[k] : k \in 1..Len(s)}
SetMax(S) == CHOOSE m \in S : \A n \in S : n <= m

\* how many observations of s are at most x
CountAtMost(s, x) == Cardinality({k \in 1..Len(s) : s[k] <= x})

\* scipy.stats.ks_2samp, line 67: the statistic, the largest distance between
\* the two empirical distribution functions, times len(a) * len(b)
KsDistance(a, b) ==
  SetMax({Abs(Len(b) * CountAtMost(a, x) - Len(a) * CountAtMost(b, x)) :
            x \in Range(a) \cup Range(b)})

\* the lattice paths from (0, 0) to (x, y) on which the two distribution
\* functions of samples of n and m observations stay less than h apart
RECURSIVE PathsWithin(_, _, _, _, _)
PathsWithin(x, y, n, m, h) ==
  IF Abs(x * m - y * n) >= h THEN 0
  ELSE IF x = 0 /\ y = 0 THEN 1
  ELSE (IF x > 0 THEN PathsWithin(x - 1, y, n, m, h) ELSE 0)
         + (IF y > 0 THEN PathsWithin(x, y - 1, n, m, h) ELSE 0)

\* scipy.stats.ks_2samp, line 67: the exact two-sided p-value as the fraction
\* num / den: the share of the paths that reach the distance of the samples
ks_2samp(a, b) ==
  LET n == Len(a)
      m == Len(b)
      all == PathsWithin(n, m, n, m, 2 * n * m + 1)
  IN [num |-> all - PathsWithin(n, m, n, m, KsDistance(a, b)), den |-> all]

\* the test for two observations taken for a test for one
pval_from_one(vals, base_values) ==
  IF Len(vals) >= 1 /\ Len(base_values) >= 1
  THEN LET p == ks_2samp(vals, base_values) IN [num |-> p.den - p.num, den |-> p.den]
  ELSE [num |-> -1, den |-> 1]

\* Values.pval, lines 65-70; the float returned as the fraction num / den
pval(vals, base_values) ==
  IF Len(vals) > 1 /\ Len(base_values) > 1
  THEN LET p == ks_2samp(vals, base_values) IN [num |-> p.den - p.num, den |-> p.den]
  ELSE [num |-> -1, den |-> 1]

\* Values(items), lines 30-31: a falsy items gives a new empty list
Values_init ==
  /\ pc = "idle"
  /\ \E items \in Samples : v_items' = items
  /\ pc' = "v_ready"
  /\ UNCHANGED <<raised, bazel, instances, v_base, v_out>>
  /\ UNCHANGED runner_vars
  /\ UNCHANGED invoker_vars
  /\ UNCHANGED parser_vars
  /\ UNCHANGED event_vars
  /\ UNCHANGED entry_vars
  /\ UNCHANGED summary_vars

\* Values.add, lines 33-35
Values_add ==
  /\ pc = "v_ready"
  /\ Len(v_items) < MaxObs
  /\ \E value \in Observations : v_items' = Append(v_items, value)
  /\ UNCHANGED <<pc, raised, bazel, instances, v_base, v_out>>
  /\ UNCHANGED runner_vars
  /\ UNCHANGED invoker_vars
  /\ UNCHANGED parser_vars
  /\ UNCHANGED event_vars
  /\ UNCHANGED entry_vars
  /\ UNCHANGED summary_vars

\* Values.pval, lines 53-70
Values_pval ==
  /\ pc = "v_ready"
  /\ \E base_values \in Samples :
       /\ v_base' = base_values
       /\ v_out' = [state |-> "returned", vals |-> v_items,
                    value |-> pval(v_items, base_values)]
  /\ UNCHANGED <<pc, raised, bazel, instances, v_items>>
  /\ UNCHANGED runner_vars
  /\ UNCHANGED invoker_vars
  /\ UNCHANGED parser_vars
  /\ UNCHANGED event_vars
  /\ UNCHANGED entry_vars
  /\ UNCHANGED summary_vars

\* ================================================ benchmark.py, the summary
\* the metrics of a run record in the order Bazel.command sets them
\* (bazel.py:60-88), which is the order of the dict main builds (lines 645-650)
MetricOrder == <<"started_at", "wall", "cpu", "system", "exit_status", "memory">>

\* the samples main collects from the records of n runs (lines 645-650)
CollectedOf(n, exit_status, wall) ==
  [started_at |-> [k \in 1..n |-> k], wall |-> wall, cpu |-> wall,
   system |-> [k \in 1..n |-> 0], exit_status |-> exit_status,
   memory |-> [k \in 1..n |-> 10]]

\* a unit of no runs leaves the dict empty
EmptyCollected == [metric \in {} |-> <<>>]

Collecteds ==
  UNION {{CollectedOf(n, e, w) : e \in [1..n -> ExitCodes], w \in [1..n -> {0, 1}]} :
           n \in 1..MaxObs}
    \cup {EmptyCollected}

\* the k-th of the distinct (bazel_commit, project_commit) keys of data
KeyOf(k) == <<IntToStr(k), <<"p">>>>

\* data: an OrderedDict, as the list of its items
DataSets ==
  {[k \in 1..Len(cs) |-> [key |-> KeyOf(k), collected |-> cs[k]]] :
     cs \in SeqsUpTo(Collecteds, MaxKeys)}

\* collected.items(): the metrics of a dict in its order
MetricsOf(c) == LET Has(metric) == metric \in DOMAIN c IN SelectSeq(MetricOrder, Has)

\* lines 411-414: the 0-based run index of every non-zero exit code
non_zero_runs_of(exit_codes) ==
  [k \in {r - 1 : r \in {q \in 1..Len(exit_codes) : exit_codes[q] # 0}} |->
     exit_codes[k + 1]]

\* class Values, lines 30-73: the methods it defines
ValuesMethods == {"add", "values", "mean", "median", "stddev", "pval", "items"}

\* an attribute that the class does not define raises AttributeError
HasMethod(name) == name \in ValuesMethods

\* lines 396-398
create_summary_Call ==
  /\ pc = "idle"
  /\ cs_data' \in DataSets
  /\ cs_builder' = <<[row |-> "title"]>>
  /\ cs_last' = NoneValue
  /\ cs_key' = 0
  /\ pc' = "cs_loop"
  /\ UNCHANGED <<raised, bazel, instances, cs_metric, cs_non_zero_runs, cs_call, cs_out>>
  /\ UNCHANGED runner_vars
  /\ UNCHANGED invoker_vars
  /\ UNCHANGED parser_vars
  /\ UNCHANGED event_vars
  /\ UNCHANGED entry_vars
  /\ UNCHANGED values_vars

\* lines 399-414: the next key, its header, its non-zero runs; a dict without
\* the metric wall or exit_status raises KeyError
create_summary_Key ==
  /\ pc = "cs_loop"
  /\ cs_key < Len(cs_data)
  /\ LET item == cs_data[cs_key + 1]
     IN /\ cs_builder' =
             cs_builder \o <<[row |-> "header", key |-> item.key], [row |-> "columns"]>>
        /\ IF {"wall", "exit_status"} \subseteq DOMAIN item.collected
           THEN /\ cs_non_zero_runs' = non_zero_runs_of(item.collected.exit_status)
                /\ cs_metric' = 1
                /\ pc' = "cs_metrics"
                /\ UNCHANGED raised
           ELSE /\ raised' = "KeyError"
                /\ pc' = "cs_raised"
                /\ UNCHANGED <<cs_non_zero_runs, cs_metric>>
  /\ cs_key' = cs_key + 1
  /\ UNCHANGED <<bazel, instances, cs_data, cs_last, cs_call, cs_out>>
  /\ UNCHANGED runner_vars
  /\ UNCHANGED invoker_vars
  /\ UNCHANGED parser_vars
  /\ UNCHANGED event_vars
  /\ UNCHANGED entry_vars
  /\ UNCHANGED values_vars

\* lines 415-417: exit_status and started_at get no row
create_summary_Skip ==
  /\ pc = "cs_metrics"
  /\ cs_metric <= Len(MetricsOf(cs_data[cs_key].collected))
  /\ MetricsOf(cs_data[cs_key].collected)[cs_metric] \in {"exit_status", "started_at"}
  /\ cs_metric' = cs_metric + 1
  /\ UNCHANGED <<pc, raised, bazel, instances>>
  /\ UNCHANGED <<cs_data, cs_key, cs_non_zero_runs, cs_builder, cs_last, cs_call, cs_out>>
  /\ UNCHANGED runner_vars
  /\ UNCHANGED invoker_vars
  /\ UNCHANGED parser_vars
  /\ UNCHANGED event_vars
  /\ UNCHANGED entry_vars
  /\ UNCHANGED values_vars

\* lines 419-420: values.exclude_from_indexes is looked up on the Values of the
\* metric.  The class defines no such method: AttributeError leaves
\* create_summary.  Lines 421-453 follow a return of this call, and every dict
\* that passes line 409 holds the metric wall, which comes to this line.
create_summary_Exclude ==
  /\ pc = "cs_metrics"
  /\ cs_metric <= Len(MetricsOf(cs_data[cs_key].collected))
  /\ MetricsOf(cs_data[cs_key].collected)[cs_metric] \notin {"exit_status", "started_at"}
  /\ cs_call' =
       [method |-> "exclude_from_indexes",
        metric |-> MetricsOf(cs_data[cs_key].collected)[cs_metric],
        self |-> cs_data[cs_key].collected[MetricsOf(cs_data[cs_key].collected)[cs_metric]],
        indexes |-> DOMAIN cs_non_zero_runs,
        result |-> NoReturn]
  /\ ~HasMethod("exclude_from_indexes")
  /\ raised' = "AttributeError"
  /\ pc' = "cs_raised"
  /\ UNCHANGED <<bazel, instances>>
  /\ UNCHANGED <<cs_data, cs_key, cs_metric, cs_non_zero_runs, cs_builder, cs_last, cs_out>>
  /\ UNCHANGED runner_vars
  /\ UNCHANGED invoker_vars
  /\ UNCHANGED parser_vars
  /\ UNCHANGED event_vars
  /\ UNCHANGED entry_vars
  /\ UNCHANGED values_vars

\* lines 399, 455: no key is left
create_summary_Return ==
  /\ pc = "cs_loop"
  /\ cs_key = Len(cs_data)
  /\ cs_out' = [state |-> "returned", lines |-> cs_builder]
  /\ pc' = "cs_returned"
  /\ UNCHANGED <<raised, bazel, instances>>
  /\ UNCHANGED <<cs_data, cs_key, cs_metric, cs_non_zero_runs, cs_builder, cs_last, cs_call>>
  /\ UNCHANGED runner_vars
  /\ UNCHANGED invoker_vars
  /\ UNCHANGED parser_vars
  /\ UNCHANGED event_vars
  /\ UNCHANGED entry_vars
  /\ UNCHANGED values_vars

\* ===================================================== benchmark_config.py
\* a value of a YAML mapping as Python holds it: its type and its content
PyStr(s) == [type |-> "str", v |-> s]
PyInt(n) == [type |-> "int", v |-> n]
PyBool(b) == [type |-> "bool", v |-> b]
PyList(l) == [type |-> "list", v |-> l]
PyNone == [type |-> "NoneType", v |-> <<>>]

EmptyDict == [k \in {} |-> PyNone]

\* dict.update: the keys of both, the values of other where it has the key
update(d, other) ==
  [k \in DOMAIN d \cup DOMAIN other |-> IF k \in DOMAIN other THEN other[k] ELSE d[k]]

\* copy.copy(d) followed by update(other) on the copy (lines 151-153 and
\* 221-222): the copy gets the keys, the dict that was copied stays as it was
copy_update_aliased(d, other) == [copy |-> update(d, other), original |-> update(d, other)]

copy_update(d, other) == [copy |-> update(d, other), original |-> d]

\* line 65
BAZEL_GITHUB_URL ==
  <<"h", "t", "t", "p", "s", ":", "/", "/", "g", "i", "t", "h", "u", "b", ".",
    "c", "o", "m", "/", "b", "a", "z", "e", "l", "b", "u", "i", "l", "d", "/",
    "b", "a", "z", "e", "l", ".", "g", "i", "t">>

\* _DEFAULT_VALS, lines 62-67
DEFAULT_VALS ==
  [runs |-> PyInt(5), collect_profile |-> PyBool(FALSE),
   bazel_source |-> PyStr(BAZEL_GITHUB_URL), env_configure |-> PyNone]

\* shlex.split of a string without quotes, escapes or comments: the maximal
\* runs of characters other than the blank (line 227)
RECURSIVE SplitFrom(_, _, _, _)
SplitFrom(s, k, token, out) ==
  IF k > Len(s)
  THEN IF token = <<>> THEN out ELSE Append(out, token)
  ELSE IF s[k] = " "
       THEN SplitFrom(s, k + 1, <<>>, IF token = <<>> THEN out ELSE Append(out, token))
       ELSE SplitFrom(s, k + 1, Append(token, s[k]), out)

shlex_split(s) == SplitFrom(s, 1, <<>>, <<>>)

\* ' '.join(tokens) (benchmark.py:587)
RECURSIVE join(_)
join(tokens) ==
  IF tokens = <<>> THEN <<>>
  ELSE IF Len(tokens) = 1 THEN tokens[1]
  ELSE tokens[1] \o <<" ">> \o join(Tail(tokens))

\* how many tokens the loop of lines 229-230 pops: the leading ones that
\* start with '--'
StartupCount(tokens) ==
  LET stops == {k \in 1..Len(tokens) : ~StartsWithDashDash(tokens[k])}
  IN IF stops = {} THEN Len(tokens) ELSE (CHOOSE k \in stops : \A j \in stops : k <= j) - 1

\* how many tokens the loop of lines 237-238 pops: the leading ones that
\* start with '--' and are not '--'
OptionCount(tokens) ==
  LET stops == {k \in 1..Len(tokens) :
                  ~(StartsWithDashDash(tokens[k]) /\ tokens[k] # <<"-", "-">>)}
  IN IF stops = {} THEN Len(tokens) ELSE (CHOOSE k \in stops : \A j \in stops : k <= j) - 1

LINUX == <<"l", "i", "n", "u", "x">>
DARWIN == <<"d", "a", "r", "w", "i", "n">>
Platforms == {LINUX, DARWIN}
SANDBOX_TMPFS_PATH ==
  <<"-", "-", "s", "a", "n", "d", "b", "o", "x", "_", "t", "m", "p", "f", "s",
    "_", "p", "a", "t", "h", "=", "/", "t", "m", "p">>

\* sys.platform.startswith('linux'), line 240
IsLinux(sys_platform) == Len(sys_platform) >= 5 /\ SubSeq(sys_platform, 1, 5) = LINUX

\* BenchmarkConfig._parse_unit, lines 209-251.  defaults is the class
\* attribute _DEFAULT_VALS as it is when the call starts; the result holds the
\* parsed unit and _DEFAULT_VALS as the call leaves it.
parse_unit(u, defaults, sys_platform) ==
  LET parsed_unit == copy_update(defaults, u)
  IN IF "command" \notin DOMAIN u \/ u["command"].type # "str"
     THEN Raises("ValueError")
     ELSE LET full_command_tokens == shlex_split(u["command"].v)
              startup_options ==
                SubSeq(full_command_tokens, 1, StartupCount(full_command_tokens))
              after_startup ==
                SliceFrom(full_command_tokens, StartupCount(full_command_tokens))
          IN IF after_startup = <<>>
             THEN Raises("ValueError")
             ELSE LET command == after_startup[1]
                      after_command == SliceFrom(after_startup, 1)
                      options ==
                        SubSeq(after_command, 1, OptionCount(after_command))
                          \o (IF IsLinux(sys_platform)
                              THEN <<SANDBOX_TMPFS_PATH>> ELSE <<>>)
                      targets == SliceFrom(after_command, OptionCount(after_command))
                  IN Ok([unit |->
                           update(parsed_unit.copy,
                                  [startup_options |-> PyList(startup_options),
                                   command |-> PyStr(command),
                                   options |-> PyList(options),
                                   targets |-> PyList(targets)]),
                         defaults |-> parsed_unit.original])

\* the loop with a unit that does not parse left out
RECURSIVE from_string_loop_skipping(_, _, _, _, _, _)
from_string_loop_skipping(units, k, global_options, defaults, parsed_units, sys_platform) ==
  IF k > Len(units)
  THEN Ok([units |-> parsed_units, global_options |-> global_options,
           defaults |-> defaults])
  ELSE LET local == copy_update(global_options, units[k])
           parsed == parse_unit(local.copy, defaults, sys_platform)
       IN IF ~parsed.ok
          THEN from_string_loop_skipping(units, k + 1, local.original, defaults,
                                         parsed_units, sys_platform)
          ELSE from_string_loop_skipping(units, k + 1, local.original,
                                         parsed.value.defaults,
                                         Append(parsed_units, parsed.value.unit),
                                         sys_platform)

\* the loop of from_string, lines 149-154: the units in order, the first
\* error ends it
RECURSIVE from_string_loop(_, _, _, _, _, _)
from_string_loop(units, k, global_options, defaults, parsed_units, sys_platform) ==
  IF k > Len(units)
  THEN Ok([units |-> parsed_units, global_options |-> global_options,
           defaults |-> defaults])
  ELSE LET local == copy_update(global_options, units[k])
           parsed == parse_unit(local.copy, defaults, sys_platform)
       IN IF ~parsed.ok
          THEN parsed
          ELSE from_string_loop(units, k + 1, local.original, parsed.value.defaults,
                                Append(parsed_units, parsed.value.unit), sys_platform)

\* BenchmarkConfig.from_string, lines 128-155, on the mapping that
\* yaml.safe_load gives.  The result is the BenchmarkConfig (its _units and
\* _benchmark_project_commits) with the global options and _DEFAULT_VALS as
\* the call leaves them.
from_string(config, sys_platform) ==
  IF "units" \notin DOMAIN config
  THEN Raises("ValueError")
  ELSE LET benchmark_project_commits ==
             IF "benchmark_project_commits" \in DOMAIN config
             THEN config["benchmark_project_commits"] ELSE PyBool(FALSE)
           global_options ==
             IF "global_options" \in DOMAIN config
             THEN config["global_options"] ELSE EmptyDict
           parsed == from_string_loop(config["units"], 1, global_options,
                                      DEFAULT_VALS, <<>>, sys_platform)
       IN IF ~parsed.ok
          THEN parsed
          ELSE Ok([units |-> parsed.value.units,
                   benchmark_project_commits |-> benchmark_project_commits,
                   global_options |-> parsed.value.global_options,
                   defaults |-> parsed.value.defaults])

\* the pairs (x, y) for x in xs for y in ys, in the order of the two loops
\* (lines 181-182, 194-195)
Pairs(xs, ys) ==
  [n \in 1..(Len(xs) * Len(ys)) |->
     <<xs[((n - 1) \div Len(ys)) + 1], ys[((n - 1) % Len(ys)) + 1]>>]

\* the dict of lines 184-193 (tool: 'bazel_commit') and 197-206 ('bazel_binary')
FlagUnit(tool, identifier, project_commit, bazel_source, project_source, env_configure, runs, collect_profile, command) ==
  [k \in {tool, "project_commit", "bazel_source", "project_source", "runs",
          "collect_profile", "env_configure", "command"} |->
     IF k = tool THEN identifier
     ELSE IF k = "project_commit" THEN project_commit
     ELSE IF k = "bazel_source" THEN bazel_source
     ELSE IF k = "project_source" THEN project_source
     ELSE IF k = "runs" THEN runs
     ELSE IF k = "collect_profile" THEN collect_profile
     ELSE IF k = "env_configure" THEN env_configure
     ELSE command]

\* BenchmarkConfig.from_flags, lines 157-207
from_flags(bazel_commits, bazel_binaries, project_commits, bazel_source, project_source, env_configure, runs, collect_profile, command, sys_platform) ==
  LET of_commits == Pairs(bazel_commits, project_commits)
      of_binaries == Pairs(bazel_binaries, project_commits)
      dicts ==
        [n \in 1..Len(of_commits) |->
           FlagUnit("bazel_commit", PyStr(of_commits[n][1]), PyStr(of_commits[n][2]),
                    bazel_source, project_source, env_configure, runs,
                    collect_profile, command)]
        \o [n \in 1..Len(of_binaries) |->
              FlagUnit("bazel_binary", PyStr(of_binaries[n][1]), PyStr(of_binaries[n][2]),
                       bazel_source, project_source, env_configure, runs,
                       collect_profile, command)]
      parsed == [n \in 1..Len(dicts) |-> parse_unit(dicts[n], DEFAULT_VALS, sys_platform)]
      failed == {n \in 1..Len(dicts) : ~parsed[n].ok}
  IN IF failed # {}
     THEN parsed[CHOOSE n \in failed : \A j \in failed : n <= j]
     ELSE Ok([units |-> [n \in 1..Len(dicts) |-> parsed[n].value.unit],
              benchmark_project_commits |-> PyBool(Len(project_commits) > 1)])

\* -------- the inputs of the classmethods
BUILD_ALL == join(<<BUILD, TARGET_ALL>>)
NOSTAMP_BUILD_KEEP_GOING_ALL == join(<<NOSTAMP, BUILD, KEEP_GOING, TARGET_ALL>>)
COMMIT_C == <<"c">>
COMMIT_D == <<"d">>
BINARY_A_B == <<"a", "/", "b">>
PROJECT_P == <<"p">>
PROJECT_Q == <<"q">>
PROJECT_SOURCE == <<"s">>

\* the mappings of the units of a config file
LocalOptions ==
  {[bazel_commit |-> PyStr(COMMIT_C), command |-> PyStr(BUILD_ALL)],
   [bazel_binary |-> PyStr(BINARY_A_B), command |-> PyStr(NOSTAMP_BUILD_KEEP_GOING_ALL)],
   [bazel_commit |-> PyStr(COMMIT_C), bazel_binary |-> PyStr(BINARY_A_B),
    command |-> PyStr(TEST)],
   [command |-> PyStr(TEST)],
   [bazel_commit |-> PyStr(COMMIT_D)],
   [bazel_commit |-> PyStr(COMMIT_C), command |-> PyInt(1)],
   [bazel_commit |-> PyStr(COMMIT_C), command |-> PyStr(KEEP_GOING)],
   [bazel_binary |-> PyStr(BINARY_A_B), command |-> PyStr(TEST), runs |-> PyInt(0),
    collect_memory |-> PyBool(FALSE), project_commit |-> PyStr(PROJECT_Q)]}

\* the global_options of a config file
GlobalOptions ==
  {EmptyDict,
   [project_commit |-> PyStr(PROJECT_P), runs |-> PyInt(1),
    collect_memory |-> PyBool(TRUE), project_source |-> PyStr(PROJECT_SOURCE)],
   [command |-> PyStr(TEST), project_commit |-> PyStr(PROJECT_P),
    collect_profile |-> PyBool(TRUE)]}

UnitLists == SeqsUpTo(LocalOptions, MaxUnits)

\* what yaml.safe_load gives for a config file
Configs ==
  {[global_options |-> g] : g \in GlobalOptions}
    \cup {[units |-> us] : us \in UnitLists}
    \cup {[units |-> us, global_options |-> g] : us \in UnitLists, g \in GlobalOptions}

\* from_string(string), lines 128-155
from_string_Call ==
  /\ pc = "idle"
  /\ \E config \in Configs, sys_platform \in Platforms :
       /\ cf_in' = [classmethod |-> "from_string", config |-> config,
                    sys_platform |-> sys_platform]
       /\ cf_out' = from_string(config, sys_platform)
  /\ raised' = IF cf_out'.ok THEN "none" ELSE cf_out'.exception
  /\ pc' = IF cf_out'.ok THEN "cf_returned" ELSE "cf_raised"
  /\ UNCHANGED <<bazel, instances>>
  /\ UNCHANGED runner_vars
  /\ UNCHANGED invoker_vars
  /\ UNCHANGED parser_vars
  /\ UNCHANGED event_vars
  /\ UNCHANGED stats_vars
  /\ UNCHANGED main_vars
  /\ UNCHANGED profile_vars

\* from_flags(...), lines 157-207
from_flags_Call ==
  /\ pc = "idle"
  /\ \E bazel_commits \in {<<>>, <<COMMIT_C>>, <<COMMIT_C, COMMIT_D>>},
        bazel_binaries \in {<<>>, <<BINARY_A_B>>},
        project_commits \in {<<PROJECT_P>>, <<PROJECT_P, PROJECT_Q>>},
        runs \in {PyInt(1), PyInt(2)},
        command \in {TEST, NOSTAMP_BUILD_KEEP_GOING_ALL, KEEP_GOING},
        sys_platform \in Platforms :
       /\ cf_in' = [classmethod |-> "from_flags", bazel_commits |-> bazel_commits,
                    bazel_binaries |-> bazel_binaries,
                    project_commits |-> project_commits, runs |-> runs,
                    command |-> command, sys_platform |-> sys_platform]
       /\ cf_out' = from_flags(bazel_commits, bazel_binaries, project_commits,
                               PyStr(BAZEL_GITHUB_URL), PyStr(PROJECT_SOURCE), PyNone,
                               runs, PyBool(FALSE), PyStr(command), sys_platform)
  /\ raised' = IF cf_out'.ok THEN "none" ELSE cf_out'.exception
  /\ pc' = IF cf_out'.ok THEN "cf_returned" ELSE "cf_raised"
  /\ UNCHANGED <<bazel, instances>>
  /\ UNCHANGED runner_vars
  /\ UNCHANGED invoker_vars
  /\ UNCHANGED parser_vars
  /\ UNCHANGED event_vars
  /\ UNCHANGED stats_vars
  /\ UNCHANGED main_vars
  /\ UNCHANGED profile_vars

\* ====================================================== benchmark.py, main
\* the commits of the two repositories, oldest first (repo.iter_commits())
BazelHistory == <<COMMIT_C, COMMIT_D>>
ProjectHistory == <<PROJECT_P, PROJECT_Q>>

\* _get_commits_topological, lines 76-123, for digests of full length: the
\* given commits in the order of the history, the latest one when none is
\* given and fill_default holds
get_commits_topological(commits_sha_list, history, fill_default) ==
  LET Given(c) == \E k \in 1..Len(commits_sha_list) : commits_sha_list[k] = c
      sorted_commit_list == SelectSeq(history, Given)
  IN IF commits_sha_list # <<>>
     THEN IF Len(sorted_commit_list) # Cardinality(Range(commits_sha_list))
          THEN Raises("ValueError")
          ELSE Ok(sorted_commit_list)
     ELSE IF ~fill_default THEN Ok(<<>>)
     ELSE Ok(<<history[Len(history)]>>)

\* the truth value of a value (lines 544, 571, 634)
Truthy(x) ==
  IF x.type = "bool" THEN x.v
  ELSE IF x.type = "int" THEN x.v # 0
  ELSE IF x.type = "NoneType" THEN FALSE
  ELSE x.v # <<>>

\* runs as range(1, runs + 1) takes it (line 329): True is 1, False is 0
AsCount(x) == IF x.type = "bool" THEN (IF x.v THEN 1 ELSE 0) ELSE x.v

\* _build_bazel_binary, lines 174-176, without a platform: the destination
BAZEL_BINARY_BASE_PATH == <<"~", "/", "b", "i", "n">>
destination(commit) == BAZEL_BINARY_BASE_PATH \o <<"/">> \o commit \o <<"/", "b", "a", "z", "e", "l">>

\* what main does outside its own process
MainEvent(e, k) == [e |-> e, unit |-> k]

\* -------- the executions of main
CONFIG_PATH == <<"c", "f", "g">>

\* the mappings of the units of the config files given to main
MainLocalOptions ==
  {[bazel_commit |-> PyStr(COMMIT_C), command |-> PyStr(BUILD_ALL)],
   [bazel_binary |-> PyStr(BINARY_A_B), command |-> PyStr(NOSTAMP_BUILD_KEEP_GOING_ALL)],
   [command |-> PyStr(TEST)],
   [bazel_commit |-> PyStr(COMMIT_D)],
   [bazel_commit |-> PyStr(COMMIT_C), command |-> PyStr(KEEP_GOING)],
   [bazel_binary |-> PyStr(BINARY_A_B), command |-> PyStr(TEST), runs |-> PyInt(0),
    collect_memory |-> PyBool(FALSE), project_commit |-> PyStr(PROJECT_Q)],
   [bazel_binary |-> PyStr(BINARY_A_B), command |-> PyStr(TEST), runs |-> PyInt(1),
    collect_memory |-> PyBool(FALSE), collect_profile |-> PyBool(TRUE),
    project_commit |-> PyStr(<<>>)]}

MainConfigs ==
  {[global_options |-> g] : g \in GlobalOptions}
    \cup {[units |-> us, global_options |-> g] :
            us \in SeqsUpTo(MainLocalOptions, MaxUnits), g \in GlobalOptions}

\* FLAGS, argv and the environment: with --benchmark_config, and without
Executions ==
  {[benchmark_config |-> PyStr(CONFIG_PATH), config_file |-> config,
    bazel_commits |-> <<>>, bazel_binaries |-> <<>>, project_commits |-> <<>>,
    runs |-> 3, collect_memory |-> FALSE, collect_json_profile |-> FALSE,
    aggregate_json_profiles |-> FALSE, prefetch_ext_deps |-> prefetch_ext_deps,
    data_directory |-> data_directory, bazel_args |-> <<>>,
    sys_platform |-> sys_platform] :
     config \in MainConfigs, prefetch_ext_deps \in BOOLEAN,
     data_directory \in {PyNone, PyStr(DataDirectory)}, sys_platform \in Platforms}
  \cup
  {[benchmark_config |-> PyNone, config_file |-> EmptyDict,
    bazel_commits |-> bazel_commits, bazel_binaries |-> bazel_binaries,
    project_commits |-> project_commits,
    runs |-> runs, collect_memory |-> collect_memory,
    collect_json_profile |-> collect_json_profile,
    aggregate_json_profiles |-> aggregate_json_profiles,
    prefetch_ext_deps |-> TRUE, data_directory |-> PyNone,
    bazel_args |-> bazel_args, sys_platform |-> LINUX] :
     bazel_commits \in {<<>>, <<COMMIT_D>>, <<COMMIT_D, COMMIT_C>>},
     bazel_binaries \in {<<>>, <<BINARY_A_B>>},
     project_commits \in {<<>>, <<PROJECT_P>>, <<PROJECT_P, PROJECT_Q>>},
     runs \in 1..MaxRuns, collect_memory \in BOOLEAN,
     collect_json_profile \in BOOLEAN, aggregate_json_profiles \in BOOLEAN,
     bazel_args \in {<<TEST>>, <<KEEP_GOING>>, <<NOSTAMP, BUILD, KEEP_GOING, TARGET_ALL>>}}

\* _flag_checks, lines 521-532
flag_checks(flags) ==
  IF ~Truthy(flags.benchmark_config) /\ Len(flags.bazel_commits) > 1
       /\ Len(flags.project_commits) > 1
  THEN Raises("ValueError")
  ELSE IF flags.aggregate_json_profiles /\ ~flags.collect_json_profile
  THEN Raises("ValueError")
  ELSE Ok(PyNone)

\* _get_benchmark_config_and_clone_repos with --benchmark_config, lines
\* 544-555: the config and the repositories set up before the return or the
\* exception
config_from_file(flags) ==
  LET config == from_string(flags.config_file, flags.sys_platform)
  IN IF ~config.ok THEN [result |-> config, log |-> <<>>]
     ELSE IF config.value.units = <<>>
     THEN [result |-> Raises("IndexError"), log |-> <<>>]
     ELSE IF "project_source" \notin DOMAIN config.value.units[1]
     THEN [result |-> Raises("KeyError"), log |-> <<>>]
     ELSE [result |-> config,
           log |-> <<MainEvent("setup_project_repo", 0), MainEvent("setup_bazel_repo", 0)>>]

\* _get_benchmark_config_and_clone_repos without --benchmark_config, lines
\* 557-589.  The call of lines 582-587 is positional: FLAGS.runs fills the
\* parameter env_configure, FLAGS.collect_memory the parameter runs,
\* FLAGS.collect_json_profile the parameter collect_profile.
config_from_flags(flags) ==
  LET bazel_commits ==
        get_commits_topological(flags.bazel_commits, BazelHistory,
                                flags.bazel_commits = <<>> /\ flags.bazel_binaries = <<>>)
      project_commits == get_commits_topological(flags.project_commits, ProjectHistory, TRUE)
  IN IF ~bazel_commits.ok
     THEN [result |-> bazel_commits, log |-> <<MainEvent("setup_bazel_repo", 0)>>]
     ELSE IF ~project_commits.ok
     THEN [result |-> project_commits,
           log |-> <<MainEvent("setup_bazel_repo", 0), MainEvent("setup_project_repo", 0)>>]
     ELSE [result |->
             from_flags(bazel_commits.value, flags.bazel_binaries,
                        project_commits.value, PyStr(BAZEL_GITHUB_URL),
                        PyStr(PROJECT_SOURCE), PyInt(flags.runs),
                        PyBool(flags.collect_memory),
                        PyBool(flags.collect_json_profile),
                        PyStr(join(flags.bazel_args)), flags.sys_platform),
           log |-> <<MainEvent("setup_bazel_repo", 0), MainEvent("setup_project_repo", 0)>>]

\* lines 645-650: the run records folded into one list per metric; a record
\* that is None has no items()
RECURSIVE fold(_, _, _)
fold(results, k, acc) ==
  IF k > Len(results) THEN Ok(acc)
  ELSE IF results[k] = NoneValue THEN Raises("AttributeError")
  ELSE fold(results, k + 1,
            [metric \in DOMAIN acc \cup DOMAIN results[k] |->
               IF metric \in DOMAIN results[k]
               THEN Append(IF metric \in DOMAIN acc THEN acc[metric] ELSE <<>>,
                           results[k][metric])
               ELSE acc[metric]])

\* d[key] = value on an OrderedDict (lines 652, 658): a key that is there
\* keeps its place and gets the value, a new key goes to the end
setitem(d, key, value) ==
  IF \E n \in 1..Len(d) : d[n].key = key
  THEN [n \in 1..Len(d) |-> IF d[n].key = key THEN [key |-> key, value |-> value] ELSE d[n]]
  ELSE Append(d, [key |-> key, value |-> value])

\* the unit in process
TheUnit == m_config.units[m_k]

\* the loop stays at the unit it has just processed
next_unit_same(k) == k

\* for unit in config.get_units() (line 620): the unit after unit k
next_unit(k) == k + 1

\* lines 592-593
main_Call ==
  /\ pc = "idle"
  /\ m_flags' \in Executions
  /\ IF flag_checks(m_flags').ok
     THEN pc' = "m_config" /\ UNCHANGED raised
     ELSE pc' = "m_raised" /\ raised' = flag_checks(m_flags').exception
  /\ UNCHANGED <<bazel, instances, m_config, m_k, m_data, m_csv_data, m_log>>
  /\ UNCHANGED runner_vars
  /\ UNCHANGED invoker_vars
  /\ UNCHANGED parser_vars
  /\ UNCHANGED event_vars
  /\ UNCHANGED stats_vars
  /\ UNCHANGED config_vars
  /\ UNCHANGED profile_vars

\* lines 595-608
main_GetConfig ==
  /\ pc = "m_config"
  /\ LET got == IF Truthy(m_flags.benchmark_config)
                THEN config_from_file(m_flags) ELSE config_from_flags(m_flags)
     IN /\ m_log' = m_log \o got.log
        /\ IF got.result.ok
           THEN /\ m_config' = [units |-> got.result.value.units,
                                benchmark_project_commits |->
                                  got.result.value.benchmark_project_commits]
                /\ m_k' = 1
                /\ pc' = "m_build"
                /\ UNCHANGED raised
           ELSE /\ raised' = got.result.exception
                /\ pc' = "m_raised"
                /\ UNCHANGED <<m_config, m_k>>
  /\ UNCHANGED <<bazel, instances, m_flags, m_data, m_csv_data>>
  /\ UNCHANGED runner_vars
  /\ UNCHANGED invoker_vars
  /\ UNCHANGED parser_vars
  /\ UNCHANGED event_vars
  /\ UNCHANGED stats_vars
  /\ UNCHANGED config_vars
  /\ UNCHANGED profile_vars

\* lines 611-618, one unit: the binary given, or _build_bazel_binary (which
\* builds the commit unless its binary is there); get_units copies the list,
\* not the dicts, so the path stays in the unit
main_BuildBinary ==
  /\ pc = "m_build"
  /\ m_k <= Len(m_config.units)
  /\ IF "bazel_binary" \in DOMAIN TheUnit
     THEN /\ m_config' = [m_config EXCEPT !.units[m_k] =
                            update(@, [bazel_bin_path |-> @["bazel_binary"]])]
          /\ UNCHANGED m_log
     ELSE IF "bazel_commit" \in DOMAIN TheUnit
     THEN /\ m_config' = [m_config EXCEPT !.units[m_k] =
                            update(@, [bazel_bin_path |->
                                         PyStr(destination(@["bazel_commit"].v))])]
          /\ m_log' = Append(m_log, MainEvent("build_bazel_binary", m_k))
     ELSE UNCHANGED <<m_config, m_log>>
  /\ m_k' = m_k + 1
  /\ UNCHANGED <<pc, raised, bazel, instances, m_flags, m_data, m_csv_data>>
  /\ UNCHANGED runner_vars
  /\ UNCHANGED invoker_vars
  /\ UNCHANGED parser_vars
  /\ UNCHANGED event_vars
  /\ UNCHANGED stats_vars
  /\ UNCHANGED config_vars
  /\ UNCHANGED profile_vars

\* line 620: the first loop is over, the second starts
main_Built ==
  /\ pc = "m_build"
  /\ m_k > Len(m_config.units)
  /\ m_k' = 1
  /\ pc' = "m_unit"
  /\ UNCHANGED <<raised, bazel, instances, m_flags, m_config, m_data, m_csv_data, m_log>>
  /\ UNCHANGED runner_vars
  /\ UNCHANGED invoker_vars
  /\ UNCHANGED parser_vars
  /\ UNCHANGED event_vars
  /\ UNCHANGED stats_vars
  /\ UNCHANGED config_vars
  /\ UNCHANGED profile_vars

\* lines 620-629: the identifier and the project commit of the unit, the
\* checkout (FLAGS.env_configure is not set)
main_Checkout ==
  /\ pc = "m_unit"
  /\ m_k <= Len(m_config.units)
  /\ IF {"bazel_commit", "bazel_binary"} \cap DOMAIN TheUnit = {}
          \/ "project_commit" \notin DOMAIN TheUnit
     THEN /\ raised' = "KeyError"
          /\ pc' = "m_raised"
          /\ UNCHANGED m_log
     ELSE /\ m_log' = Append(m_log, MainEvent("checkout", m_k))
          /\ pc' = "m_run"
          /\ UNCHANGED raised
  /\ UNCHANGED <<bazel, instances, m_flags, m_config, m_k, m_data, m_csv_data>>
  /\ UNCHANGED runner_vars
  /\ UNCHANGED invoker_vars
  /\ UNCHANGED parser_vars
  /\ UNCHANGED event_vars
  /\ UNCHANGED stats_vars
  /\ UNCHANGED config_vars
  /\ UNCHANGED profile_vars

\* line 621
bazel_identifier_of(u) ==
  IF "bazel_commit" \in DOMAIN u THEN u["bazel_commit"].v ELSE u["bazel_binary"].v

\* lines 630-644: the arguments are evaluated, then _run_benchmark starts
\* (lines 314-318)
main_RunBenchmark ==
  /\ pc = "m_run"
  /\ IF {"bazel_bin_path", "runs", "collect_memory", "collect_profile"}
          \subseteq DOMAIN TheUnit
     THEN /\ unit' = [runs |-> AsCount(TheUnit["runs"]),
                      collect_memory |->
                        Truthy(TheUnit["collect_memory"]) \/ Truthy(m_flags.data_directory),
                      command |-> TheUnit["command"].v,
                      options |-> TheUnit["options"].v,
                      targets |-> TheUnit["targets"].v,
                      prefetch_ext_deps |-> m_flags.prefetch_ext_deps,
                      collect_json_profile |-> Truthy(TheUnit["collect_profile"]),
                      bazel_identifier |-> bazel_identifier_of(TheUnit),
                      project_commit |-> TheUnit["project_commit"].v]
          /\ env_exit' \in [1..unit'.runs -> ExitCodes]
          /\ collected' = <<>>
          /\ cwd' = "project_path"
          /\ m_log' = Append(m_log, MainEvent("run_benchmark", m_k))
          /\ pc' = "rb_prefetch"
          /\ UNCHANGED raised
     ELSE /\ raised' = "KeyError"
          /\ pc' = "m_raised"
          /\ UNCHANGED <<unit, env_exit, collected, cwd, m_log>>
  /\ UNCHANGED <<i, rb_result, sr, bazel, instances>>
  /\ UNCHANGED <<m_flags, m_config, m_k, m_data, m_csv_data>>
  /\ UNCHANGED invoker_vars
  /\ UNCHANGED parser_vars
  /\ UNCHANGED event_vars
  /\ UNCHANGED stats_vars
  /\ UNCHANGED config_vars
  /\ UNCHANGED profile_vars

\* lines 645-662: _run_benchmark returned; the records are folded and the
\* two maps get the unit's entry
main_Fold ==
  /\ pc = "rb_returned"
  /\ m_k > 0
  /\ LET key == <<unit.bazel_identifier, unit.project_commit>>
         folded == fold(rb_result.collected, 1, EmptyCollected)
     IN IF ~folded.ok
        THEN /\ raised' = folded.exception
             /\ pc' = "m_raised"
             /\ UNCHANGED <<m_data, m_csv_data, m_k, m_log>>
        ELSE /\ m_data' = setitem(m_data, key, folded.value)
             /\ m_log' = Append(m_log, MainEvent("returned", m_k))
             /\ IF "project_source" \in DOMAIN TheUnit
                THEN /\ m_csv_data' =
                          setitem(m_csv_data, key,
                                  [results |-> rb_result.collected,
                                   args |-> <<rb_result.command, rb_result.targets,
                                              rb_result.options>>,
                                   non_measurables |->
                                     [project_source |-> TheUnit["project_source"]]])
                     /\ m_k' = next_unit(m_k)
                     /\ pc' = "m_unit"
                     /\ UNCHANGED raised
                ELSE /\ raised' = "KeyError"
                     /\ pc' = "m_raised"
                     /\ UNCHANGED <<m_csv_data, m_k>>
  /\ UNCHANGED <<bazel, instances, m_flags, m_config>>
  /\ UNCHANGED runner_vars
  /\ UNCHANGED invoker_vars
  /\ UNCHANGED parser_vars
  /\ UNCHANGED event_vars
  /\ UNCHANGED stats_vars
  /\ UNCHANGED config_vars
  /\ UNCHANGED profile_vars

\* line 664: create_summary(data) starts (lines 396-398)
main_CreateSummary ==
  /\ pc = "m_unit"
  /\ m_k > Len(m_config.units)
  /\ cs_data' = [n \in 1..Len(m_data) |->
                   [key |-> m_data[n].key, collected |-> m_data[n].value]]
  /\ cs_builder' = <<[row |-> "title"]>>
  /\ cs_last' = NoneValue
  /\ cs_key' = 0
  /\ pc' = "cs_loop"
  /\ UNCHANGED <<raised, bazel, instances, cs_metric, cs_non_zero_runs, cs_call, cs_out>>
  /\ UNCHANGED runner_vars
  /\ UNCHANGED invoker_vars
  /\ UNCHANGED parser_vars
  /\ UNCHANGED event_vars
  /\ UNCHANGED values_vars
  /\ UNCHANGED entry_vars

\* ===================================== benchmark.py, the profile paths
\* the tool identifiers and project commits of the units of one run group
ProfileIdentifiers == {<<"a", "/", "b">>, <<"a", "_", "b">>, <<"a">>}
ProfileCommits == {<<"p">>, <<"b", "_", "p">>}

\* a run of a unit: the arguments that differ between the calls of line 339
ProfiledRuns ==
  {[bazel_identifier |-> b, project_commit |-> p, run_number |-> n, runs |-> MaxRuns] :
     b \in ProfileIdentifiers, p \in ProfileCommits, n \in 1..MaxRuns}

\* lines 339-341: the path that _run_benchmark gives to run r
profile_path(r) ==
  json_profile_filename(DataDirectory, BazelBenchUid,
                        Replace(r.bazel_identifier, "/", "_"), r.project_commit,
                        r.run_number, r.runs)

\* two runs of one run group get their profile paths
ProfilePaths ==
  /\ pc = "idle"
  /\ \E first \in ProfiledRuns, second \in ProfiledRuns :
       /\ pf_in' = <<first, second>>
       /\ pf_out' = <<profile_path(first), profile_path(second)>>
  /\ pc' = "pf_returned"
  /\ UNCHANGED <<raised, bazel, instances>>
  /\ UNCHANGED runner_vars
  /\ UNCHANGED invoker_vars
  /\ UNCHANGED parser_vars
  /\ UNCHANGED event_vars
  /\ UNCHANGED stats_vars
  /\ UNCHANGED config_vars
  /\ UNCHANGED main_vars

\* ========================================================= specifications
\* no Values, no summary, no BenchmarkConfig, no main, no profile path yet
InitStats ==
  /\ v_items = <<>>
  /\ v_base = <<>>
  /\ v_out = NoReturn
  /\ cs_data = <<>>
  /\ cs_key = 0
  /\ cs_metric = 0
  /\ cs_non_zero_runs = <<>>
  /\ cs_builder = <<>>
  /\ cs_last = NoneValue
  /\ cs_call = NoneValue
  /\ cs_out = NoReturn
  /\ cf_in = NoneValue
  /\ cf_out = NotCalled
  /\ m_flags = NoneValue
  /\ m_config = NoneValue
  /\ m_k = 0
  /\ m_data = <<>>
  /\ m_csv_data = <<>>
  /\ m_log = <<>>
  /\ pf_in = NoneValue
  /\ pf_out = NotCalled

Init ==
  /\ pc = "idle"
  /\ unit = NoUnit
  /\ env_exit = <<>>
  /\ cwd = "start"
  /\ i = 0
  /\ collected = <<>>
  /\ rb_result = NoResult
  /\ raised = "none"
  /\ sr = NoSingleRun
  /\ bazel = [pid |-> 0, pid_queries |-> 0]
  /\ instances = 0
  /\ cmd = NoCommand
  /\ ret = NoReturn
  /\ ncommands = 0
  /\ times = ZeroTimes
  /\ events = <<>>
  /\ calls = <<>>
  /\ p_args = <<>>
  /\ p_out = NotCalled
  /\ e_events = <<>>
  /\ e_out = NotCalled
  /\ InitStats

Next ==
  \/ run_benchmark_Call
  \/ run_benchmark_Prefetch
  \/ run_benchmark_NoPrefetch
  \/ run_benchmark_Run
  \/ run_benchmark_AssertFails
  \/ run_benchmark_Return
  \/ single_run_Enter
  \/ single_run_Command

\* a unit runs: _run_benchmark and the _single_run calls it makes
Spec == Init /\ [][Next]_vars

NextBazel ==
  \/ Bazel_init
  \/ Bazel_command_Call
  \/ Bazel_command_BeforeTimes
  \/ Bazel_command_Launch
  \/ Bazel_command_LaunchFails
  \/ Bazel_command_ReturnNone
  \/ Bazel_command_AfterTimes
  \/ Bazel_command_HeapSize
  \/ Bazel_command_HeapSizeFails
  \/ Bazel_command_Return

\* Bazel.command called on one Bazel instance, MaxCommands times over
SpecBazel == Init /\ [][NextBazel]_vars

\* the parser applied to every token list of the bounded input set
InitParse ==
  /\ pc = "idle"
  /\ unit = NoUnit
  /\ env_exit = <<>>
  /\ cwd = "start"
  /\ i = 0
  /\ collected = <<>>
  /\ rb_result = NoResult
  /\ raised = "none"
  /\ sr = NoSingleRun
  /\ bazel = [pid |-> 0, pid_queries |-> 0]
  /\ instances = 0
  /\ cmd = NoCommand
  /\ ret = NoReturn
  /\ ncommands = 0
  /\ times = ZeroTimes
  /\ events = <<>>
  /\ calls = <<>>
  /\ p_args \in ParserInputs
  /\ p_out = NotCalled
  /\ e_events = <<>>
  /\ e_out = NotCalled
  /\ InitStats

NextParse == Parse

SpecParse == InitParse /\ [][NextParse]_vars

\* both parsers, the second applied to every event log of the bounded set
InitEvent ==
  /\ pc = "idle"
  /\ unit = NoUnit
  /\ env_exit = <<>>
  /\ cwd = "start"
  /\ i = 0
  /\ collected = <<>>
  /\ rb_result = NoResult
  /\ raised = "none"
  /\ sr = NoSingleRun
  /\ bazel = [pid |-> 0, pid_queries |-> 0]
  /\ instances = 0
  /\ cmd = NoCommand
  /\ ret = NoReturn
  /\ ncommands = 0
  /\ times = ZeroTimes
  /\ events = <<>>
  /\ calls = <<>>
  /\ p_args \in FlatLists
  /\ p_out = NotCalled
  /\ e_events \in EventLogs
  /\ e_out = NotCalled
  /\ InitStats

NextEvent ==
  \/ Parse
  \/ ParseBuildEvent

SpecEvent == InitEvent /\ [][NextEvent]_vars

NextValues ==
  \/ Values_init
  \/ Values_add
  \/ Values_pval

NextSummary ==
  \/ create_summary_Call
  \/ create_summary_Key
  \/ create_summary_Skip
  \/ create_summary_Exclude
  \/ create_summary_Return

\* create_summary called on the samples of up to MaxKeys keys
SpecSummary == Init /\ [][NextSummary]_vars

\* one Values object: constructed, added to and compared
SpecValues == Init /\ [][NextValues]_vars

NextConfig ==
  \/ from_string_Call
  \/ from_flags_Call

\* the classmethods of BenchmarkConfig applied to every input of the bounded sets
SpecConfig == Init /\ [][NextConfig]_vars

NextMain ==
  \/ main_Call
  \/ main_GetConfig
  \/ main_BuildBinary
  \/ main_Built
  \/ main_Checkout
  \/ main_RunBenchmark
  \/ run_benchmark_Prefetch
  \/ run_benchmark_NoPrefetch
  \/ run_benchmark_Run
  \/ run_benchmark_AssertFails
  \/ run_benchmark_Return
  \/ single_run_Enter
  \/ single_run_Command
  \/ main_Fold
  \/ main_CreateSummary
  \/ create_summary_Key

\* main: the units of a config file or of the flags, run one after another
SpecMain == Init /\ [][NextMain]_vars

NextProfile == ProfilePaths

\* the profile paths of two runs of one run group
SpecProfile == Init /\ [][NextProfile]_vars

\* ================================================================= claims
Returned == pc = "b_ready" /\ ret # NoReturn
ReturnedRecord == Returned /\ ret # NoneValue
EventsOf(kind) == {k \in 1..Len(events) : events[k].e = kind}

\* C6: Bazel.command returns None if and only if the command is 'shutdown';
\* every other command that returns, whatever its exit status, returns a
\* record that holds wall, cpu, system, exit_status and started_at.
C6_NoneIffShutdown ==
  Returned =>
    /\ (ret = NoneValue) <=> (cmd.command = SHUTDOWN)
    /\ ret # NoneValue =>
         {"wall", "cpu", "system", "exit_status", "started_at"} \subseteq DOMAIN ret

\* a command other than shutdown whose child exited with 137 returned a record
C6_Witness ==
  /\ ReturnedRecord
  /\ cmd.command # SHUTDOWN
  /\ cmd.exit_status = 137
  /\ ret.exit_status = 137

\* C7: for a command other than shutdown, the first time measurement precedes
\* the launch, the second follows the exit, each of wall, cpu and system in
\* the record is the second measurement minus the first, and none is negative.
C7_DeltasAfterMinusBefore ==
  ReturnedRecord =>
    /\ Cardinality(EventsOf("times")) = 2
    /\ Cardinality(EventsOf("launch")) = 1
    /\ Cardinality(EventsOf("exit")) = 1
    /\ \E b, a \in EventsOf("times"), l \in EventsOf("launch"), x \in EventsOf("exit") :
         /\ b < l
         /\ l < x
         /\ x < a
         /\ ret.wall = events[a].t.wall - events[b].t.wall
         /\ ret.cpu = events[a].t.cpu - events[b].t.cpu
         /\ ret.system = events[a].t.system - events[b].t.system
    /\ ret.wall >= 0
    /\ ret.cpu >= 0
    /\ ret.system >= 0

\* a record whose three deltas are all positive
C7_Witness ==
  /\ ReturnedRecord
  /\ ret.wall > 0
  /\ ret.cpu > 0
  /\ ret.system > 0

\* C8: a record that holds memory comes from exactly 5 heap queries, all of
\* them after the last time measurement, and its memory is the smallest of
\* the 5 sampled values.
C8_MemoryIsMinOfFive ==
  (ReturnedRecord /\ "memory" \in DOMAIN ret) =>
    /\ Cardinality(EventsOf("heap")) = 5
    /\ \A h \in EventsOf("heap"), t \in EventsOf("times") : t < h
    /\ \A h \in EventsOf("heap") : ret.memory <= events[h].n
    /\ \E h \in EventsOf("heap") : ret.memory = events[h].n

\* a record whose memory is smaller than the first of its samples
C8_Witness ==
  /\ ReturnedRecord
  /\ "memory" \in DOMAIN ret
  /\ events[Len(events) - 4].e = "heap"
  /\ events[Len(events) - 4].n > ret.memory

\* a token that begins with the two-character flag marker
IsFlagToken(tok) == Len(tok) >= 2 /\ SubSeq(tok, 1, 2) = <<"-", "-">>

\* the 1-based position of the first token after the command that is no flag
\* (one past the end when every token after the command is a flag)
FirstTargetPosition(args) ==
  CHOOSE k \in 2..(Len(args) + 1) :
    /\ k = Len(args) + 1 \/ ~IsFlagToken(args[k])
    /\ \A j \in 2..(k - 1) : IsFlagToken(args[j])

\* C10: on a non-empty token list the parser returns the first token as
\* command, the maximal run of following '--' tokens as options and every
\* token from the first other one to the end as targets; every option starts
\* with '--' and a non-empty target list does not start with a '--' token.
C10_CanonicalSplit ==
  (p_out # NotCalled /\ Len(p_args) > 0) =>
    /\ p_out.state = "returned"
    /\ p_out.command = p_args[1]
    /\ p_out.options = SubSeq(p_args, 2, FirstTargetPosition(p_args) - 1)
    /\ p_out.expressions = SubSeq(p_args, FirstTargetPosition(p_args), Len(p_args))
    /\ \A k \in 1..Len(p_out.options) : IsFlagToken(p_out.options[k])
    /\ Len(p_out.expressions) > 0 => ~IsFlagToken(p_out.expressions[1])

\* options and targets are both non-empty and a '--' token is among the targets
C10_Witness ==
  /\ p_out # NotCalled
  /\ Len(p_args) > 0
  /\ Len(p_out.options) > 0
  /\ \E k \in 2..Len(p_out.expressions) : IsFlagToken(p_out.expressions[k])

\* --------------------------------------------------- the benchmark runner
Finished == pc \in {"rb_returned", "rb_raised"}

\* the command of the k-th invocation of a unit that issues its runs as
\* (command, clean, shutdown) triples
TripleCommand(k) == <<unit.command, CLEAN, SHUTDOWN>>[((k - 1) % 3) + 1]

\* C1: without prefetch, a unit with repetition count N ends by returning N
\* run records after exactly 3N invocations, issued as (measured command,
\* clean, shutdown) N times over.
C1_ThreeCallsPerRun ==
  (Finished /\ ~unit.prefetch_ext_deps /\ ProfileAssertsHold(unit)) =>
    /\ pc = "rb_returned"
    /\ Len(calls) = 3 * unit.runs
    /\ \A k \in 1..Len(calls) : calls[k].command = TripleCommand(k)
    /\ Len(rb_result.collected) = unit.runs

\* C2: a unit in which a measured command exits with a non-zero status ends
\* without an error and returns N records, the record of run k holding the
\* exit code of run k, after the clean and the shutdown of every run.
C2_NonZeroExitIsCollected ==
  (Finished /\ ProfileAssertsHold(unit)
     /\ \E k \in 1..unit.runs : env_exit[k] # 0) =>
    /\ pc = "rb_returned"
    /\ raised = "none"
    /\ Len(rb_result.collected) = unit.runs
    /\ \A k \in 1..unit.runs : rb_result.collected[k].exit_status = env_exit[k]
    /\ Cardinality({k \in 1..Len(calls) : calls[k].command = CLEAN}) >= unit.runs
    /\ Cardinality({k \in 1..Len(calls) : calls[k].command = SHUTDOWN}) >= unit.runs

\* a token that carries the path of a profile
IsProfileFlag(tok) ==
  Len(tok) >= Len(PROFILE_EQ) /\ SubSeq(tok, 1, Len(PROFILE_EQ)) = PROFILE_EQ

\* C4: with prefetch, a unit ends by returning N records after 3(N + 1)
\* invocations, of which the first three are the unmeasured (command, clean,
\* shutdown), the command carrying no profiling flag.
C4_OnePrefetchTriple ==
  (Finished /\ unit.prefetch_ext_deps /\ ProfileAssertsHold(unit)) =>
    /\ pc = "rb_returned"
    /\ Len(calls) = 3 * (unit.runs + 1)
    /\ \A k \in 1..3 : calls[k].command = TripleCommand(k)
    /\ \A k \in 1..Len(calls[1].args) : ~IsProfileFlag(calls[1].args[k])
    /\ Len(rb_result.collected) = unit.runs

IsAmong(tok, toks) == \E k \in 1..Len(toks) : toks[k] = tok

RECURSIVE Without(_, _)
\* the tokens of defaults that are not among options, in order
Without(defaults, options) ==
  IF defaults = <<>> THEN <<>>
  ELSE (IF IsAmong(Head(defaults), options) THEN <<>> ELSE <<Head(defaults)>>)
         \o Without(Tail(defaults), options)

\* C5: the arguments evaluated for the measured command are, for 'build', the
\* defaults (--nostamp, --noshow_progress, --color=no) that the caller did not
\* give, then the caller's options, then the targets; for any other command
\* the caller's options, then the targets.
C5_DefaultsFirstNoDuplicate ==
  (pc = "rb_raised" /\ raised = "TypeError") =>
    sr.args =
      (IF sr.command = BUILD
       THEN Without(<<NOSTAMP, NOSHOW_PROGRESS, COLOR_NO>>, sr.given) \o sr.given
       ELSE sr.given) \o sr.targets

\* C9: a record holds memory only if the call enabled memory collection, and
\* a call that did not enable it issues no heap query.
C9_MemoryOnlyIfEnabled ==
  (ReturnedRecord /\ cmd.collect_memory # "true") =>
    /\ "memory" \notin DOMAIN ret
    /\ EventsOf("heap") = {}

\* ------------------------------------------------- normalisation, continued
\* the flat token list that a returned (command, expressions, options) stands for
Reconstructed(out) == <<out.command>> \o out.options \o out.expressions

\* C11: for every non-empty token list, [command] + options + targets of the
\* parser's result is the input list token for token, and the parser applied
\* to that reconstructed list returns the same command, options and targets.
C11_LosslessIdempotent ==
  (p_out # NotCalled /\ Len(p_args) > 0) =>
    /\ p_out.state = "returned"
    /\ Len(Reconstructed(p_out)) = Len(p_args)
    /\ \A k \in 1..Len(p_args) : Reconstructed(p_out)[k] = p_args[k]
    /\ parse_bazel_args_from_canonical_str(Reconstructed(p_out)) = p_out

\* a list with an option, a target and a '--' token after the target was split
C11_Witness ==
  /\ p_out # NotCalled
  /\ Len(p_args) = MaxArgs
  /\ p_out.state = "returned"
  /\ Len(p_out.options) = 1
  /\ Len(p_out.expressions) = 2
  /\ IsFlagToken(p_out.expressions[2])

\* the positions of the command-line events labelled 'canonical'
CanonicalPositions(log) ==
  {k \in 1..Len(log) :
     /\ "structuredCommandLine" \in DOMAIN log[k]
     /\ "commandLineLabel" \in DOMAIN log[k].structuredCommandLine
     /\ log[k].structuredCommandLine.commandLineLabel = "canonical"}

OptionsParsedPositions(log) == {k \in 1..Len(log) : "optionsParsed" \in DOMAIN log[k]}

Least(S) == CHOOSE m \in S : \A n \in S : m <= n

TheCanonical(log) == log[Least(CanonicalPositions(log))].structuredCommandLine

SectionsLabelled(scl, label) ==
  {k \in 1..Len(scl.sections) :
     /\ "sectionLabel" \in DOMAIN scl.sections[k]
     /\ scl.sections[k].sectionLabel = label}

NoCommandSection(log) ==
  /\ CanonicalPositions(log) # {}
  /\ SectionsLabelled(TheCanonical(log), "command") = {}

\* what a parser gives when it fails for want of a command: the exception
\* (an IndexError, the code's form of MalformedInvocation) and no other field
FailedForNoCommand == [state |-> "raised", exception |-> "IndexError"]

\* C12: normalisation fails with an error and returns no partial result when
\* no command can be found: for an empty flat token list, and for an event log
\* whose canonical command line has no 'command' section.
C12_NoCommandFails ==
  /\ (p_out # NotCalled /\ p_args = <<>>) => p_out = FailedForNoCommand
  /\ (e_out # NotCalled /\ NoCommandSection(e_events)) => e_out = FailedForNoCommand

\* both parsers failed: the flat list is empty, and the log has an
\* options-parsed event and a canonical event with targets but no command
C12_Witness ==
  /\ p_args = <<>>
  /\ p_out = FailedForNoCommand
  /\ NoCommandSection(e_events)
  /\ SectionsLabelled(TheCanonical(e_events), "residual") # {}
  /\ OptionsParsedPositions(e_events) # {}
  /\ e_out = FailedForNoCommand

\* C13: from an event log, the command and the targets are those of the
\* 'command' and 'residual' sections of the command-line event labelled
\* 'canonical' (no residual section: no targets), whatever other events and
\* sections the log holds, and the options are the tokens of the
\* options-parsed event's explicit command line, in order, less the last one.
C13_EventLogSplit ==
  (e_out # NotCalled /\ e_out.state = "returned") =>
    /\ CanonicalPositions(e_events) # {}
    /\ OptionsParsedPositions(e_events) # {}
    /\ LET scl == TheCanonical(e_events)
           commands == SectionsLabelled(scl, "command")
           residuals == SectionsLabelled(scl, "residual")
           explicit ==
             e_events[Least(OptionsParsedPositions(e_events))].optionsParsed.explicitCmdLine
       IN /\ commands # {}
          /\ e_out.command = scl.sections[Least(commands)].chunkList.chunk[1]
          /\ e_out.expressions =
               (IF residuals = {} THEN <<>>
                ELSE scl.sections[Least(residuals)].chunkList.chunk)
          /\ Len(e_out.options) = (IF explicit = <<>> THEN 0 ELSE Len(explicit) - 1)
          /\ \A k \in 1..Len(e_out.options) : e_out.options[k] = explicit[k]

\* a command-line event with another label comes first, the canonical event
\* holds sections with other labels, and two of three explicit tokens are kept
C13_Witness ==
  /\ e_out # NotCalled
  /\ e_out.state = "returned"
  /\ Len(e_events) = 3
  /\ "structuredCommandLine" \in DOMAIN e_events[1]
  /\ CanonicalPositions(e_events) = {2}
  /\ SectionsLabelled(TheCanonical(e_events), "other") # {}
  /\ e_events[3] = OptionsParsedEvent(<<KEEP_GOING, COLOR_NO, BEP_FILE>>)
  /\ e_out.command = BUILD
  /\ e_out.expressions = <<TARGET_ALL, KEEP_GOING>>
  /\ e_out.options = <<KEEP_GOING, COLOR_NO>>

\* ------------------------------------------------------------- the summary
\* the observations of a sample at the 0-based positions outside indexes
Others(sample, indexes) ==
  LET Stays(k) == (k - 1) \notin indexes
      positions == SelectSeq([k \in 1..Len(sample) |-> k], Stays)
  IN [j \in 1..Len(positions) |-> sample[positions[j]]]

\* C14: excluding a set of zero-based indices from a sample returns a new
\* sample that holds the observations at the other positions, in their order,
\* and leaves the sample as it was.
C14_ExcludeKeepsOthers ==
  cs_call # NoneValue =>
    /\ cs_call.result =
         [state |-> "returned", items |-> Others(cs_call.self, cs_call.indexes)]
    /\ cs_data[cs_key].collected[cs_call.metric] = cs_call.self

CsFinished == pc \in {"cs_returned", "cs_raised"}

\* every key of data has the samples of at least one run
EveryKeyHasRuns ==
  /\ cs_data # <<>>
  /\ \A k \in 1..Len(cs_data) : cs_data[k].collected # EmptyCollected

FailedRuns(c) == {r \in 1..Len(c.exit_status) : c.exit_status[r] # 0}
RowMetrics == {"wall", "cpu", "system", "memory"}

\* the rows of the returned summary of one kind for the k-th key
RowsOf(kind, k) ==
  {r \in 1..Len(cs_out.lines) :
     cs_out.lines[r].row = kind /\ cs_out.lines[r].key = KeyOf(k)}

\* C15: in the summary of every key, each run with a non-zero exit status is
\* left out of the sample of every metric other than exit_status and
\* started_at and is listed once as (1-based run index, exit code); each run
\* with exit status 0 is in every such sample and is not listed; a metric
\* whose sample is empty after the exclusion gets no row.
C15_FailedRunsSplit ==
  (CsFinished /\ EveryKeyHasRuns) =>
    /\ cs_out # NoReturn
    /\ \A k \in 1..Len(cs_data) :
         LET c == cs_data[k].collected
         IN /\ \A m \in RowMetrics :
                 IF FailedRuns(c) = 1..Len(c.exit_status)
                 THEN \A r \in RowsOf("metric", k) : cs_out.lines[r].metric # m
                 ELSE \E r \in RowsOf("metric", k) :
                        /\ cs_out.lines[r].metric = m
                        /\ cs_out.lines[r].sample =
                             Others(c[m], {q - 1 : q \in FailedRuns(c)})
            /\ IF FailedRuns(c) = {}
               THEN RowsOf("non_zero_runs", k) = {}
               ELSE /\ Cardinality(RowsOf("non_zero_runs", k)) = 1
                    /\ \A r \in RowsOf("non_zero_runs", k) :
                         cs_out.lines[r].runs =
                           {<<q, c.exit_status[q]>> : q \in FailedRuns(c)}

\* C16: the rows of the first key have blank pval and difference fields, and
\* the rows of every other key are compared with the samples of the key
\* before it, less that key's failed runs.
C16_BaselineIsPreviousKey ==
  (CsFinished /\ EveryKeyHasRuns) =>
    /\ cs_out # NoReturn
    /\ \A k \in 1..Len(cs_data) : \A r \in RowsOf("metric", k) :
         IF k = 1
         THEN /\ cs_out.lines[r].pval = "blank"
              /\ cs_out.lines[r].mean_diff = "blank"
              /\ cs_out.lines[r].median_diff = "blank"
         ELSE cs_out.lines[r].base =
                Others(cs_data[k - 1].collected[cs_out.lines[r].metric],
                       {q - 1 : q \in FailedRuns(cs_data[k - 1].collected)})

\* the wall times of the runs of the k-th key that exited with 0
PassedWall(k) ==
  Others(cs_data[k].collected.wall, {q - 1 : q \in FailedRuns(cs_data[k].collected)})

\* C17: when the baseline of the metric wall has the mean and the median
\* zero, the summary is still returned, and the row of wall gives the
\* differences as not computable.
C17_ZeroBaselineIsNotComputable ==
  (/\ CsFinished
   /\ EveryKeyHasRuns
   /\ Len(cs_data) >= 2
   /\ PassedWall(1) # <<>>
   /\ Range(PassedWall(1)) = {0}
   /\ PassedWall(2) # <<>>) =>
    /\ cs_out # NoReturn
    /\ \E r \in RowsOf("metric", 2) :
         /\ cs_out.lines[r].metric = "wall"
         /\ cs_out.lines[r].mean_diff = "not computable"
         /\ cs_out.lines[r].median_diff = "not computable"

\* ------------------------------------------------------------------ Values
\* C18: Values.pval returns -1 exactly when the sample or the baseline has
\* fewer than 2 observations; with at least 2 in both it returns 1 - p for a
\* probability p, a value from 0 to 1.
C18_PvalSentinel ==
  v_out # NoReturn =>
    /\ v_out.value.den > 0
    /\ (v_out.value.num = -v_out.value.den) <=> (Len(v_out.vals) < 2 \/ Len(v_base) < 2)
    /\ (Len(v_out.vals) >= 2 /\ Len(v_base) >= 2) =>
         /\ 0 <= v_out.value.num
         /\ v_out.value.num <= v_out.value.den

\* the samples [1, 1, 1] and [10, 10, 10] of test_pval_significant give 0.9
C18_Witness ==
  /\ v_out # NoReturn
  /\ v_out.vals = <<1, 1, 1>>
  /\ v_base = <<10, 10, 10>>
  /\ v_out.value.num * 10 = 9 * v_out.value.den

\* --------------------------------------------------------------- profiles
\* the path that the options handed to the running _single_run tell the tool
\* to write the profile to
ProfilePathTold == SliceFrom(sr.given[Len(sr.given)], Len(PROFILE_EQ))

\* C19: the profile path of run i of N is
\* {data dir}/{uid}_{identifier, '/' as '_'}_{project commit}_{i}_of_{N}.profile.gz
\* and the aggregation looks up, for the same unit and run, that same path.
C19_ProfilePathAgrees ==
  (pc \in {"sr_enter", "sr_call", "rb_raised"} /\ sr.from = "loop"
     /\ unit.collect_json_profile) =>
    /\ ProfilePathTold =
         DataDirectory \o <<"/">> \o BazelBenchUid \o <<"_">>
           \o Replace(unit.bazel_identifier, "/", "_") \o <<"_">>
           \o unit.project_commit \o <<"_">> \o IntToStr(i) \o OF_SEP
           \o IntToStr(unit.runs) \o PROFILE_GZ
    /\ ProfilePathTold =
         profiles_filenames(DataDirectory, BazelBenchUid, unit.bazel_identifier,
                            unit.project_commit, unit.runs)[i]

\* a token that a run injects: a build default or a profiling flag
IsInjected(tok) ==
  \/ tok \in {NOSTAMP, NOSHOW_PROGRESS, GENERATE_JSON_TRACE_PROFILE,
               PROFILE_CPU_USAGE, JSON_TRACE_COMPRESSION}
  \/ IsProfileFlag(tok)

\* what run run_number of a unit injects after the unit's options
InjectedBy(u, from, run_number) ==
  (IF from = "loop" /\ u.collect_json_profile
   THEN <<GENERATE_JSON_TRACE_PROFILE, PROFILE_CPU_USAGE, JSON_TRACE_COMPRESSION,
          PROFILE_EQ \o DataDirectory \o <<"/">> \o BazelBenchUid \o <<"_">>
            \o Replace(u.bazel_identifier, "/", "_") \o <<"_">> \o u.project_commit
            \o <<"_">> \o IntToStr(run_number) \o OF_SEP \o IntToStr(u.runs)
            \o PROFILE_GZ>>
   ELSE <<>>)
    \o (IF u.command = BUILD THEN <<NOSTAMP, NOSHOW_PROGRESS, COLOR_NO>> ELSE <<>>)

CfStringCall == cf_out # NotCalled /\ cf_in.classmethod = "from_string"
CfStringReturned == CfStringCall /\ cf_out.ok

\* the global options of the config given to from_string
GivenGlobal ==
  IF "global_options" \in DOMAIN cf_in.config
  THEN cf_in.config["global_options"] ELSE EmptyDict

\* what unit k of the config specifies, itself or through the global options
Specified(k) == update(GivenGlobal, cf_in.config["units"][k])

NamesOneTool(u) == ("bazel_commit" \in DOMAIN u) # ("bazel_binary" \in DOMAIN u)

\* C22: every unit of a BenchmarkConfig, from a config string or from flags,
\* has exactly one of the keys bazel_commit and bazel_binary, and a config
\* with a unit that specifies both or neither is rejected by from_string.
C22_ExactlyOneTool ==
  /\ (cf_out # NotCalled /\ cf_out.ok) =>
       \A k \in 1..Len(cf_out.value.units) : NamesOneTool(cf_out.value.units[k])
  /\ (CfStringCall /\ "units" \in DOMAIN cf_in.config
        /\ \E k \in 1..Len(cf_in.config["units"]) : ~NamesOneTool(Specified(k))) =>
       ~cf_out.ok

DerivedAttributes == {"startup_options", "command", "options", "targets"}

\* the attributes that unit k, the global options or the defaults give
Given(k) == DOMAIN Specified(k) \cup DOMAIN DEFAULT_VALS

\* the unit's own value, else the global option, else the default
Expected(k, a) == update(DEFAULT_VALS, Specified(k))[a]

\* the global options and the defaults are as they were before the call
LeftAlone ==
  /\ cf_out.value.global_options = GivenGlobal
  /\ cf_out.value.defaults = DEFAULT_VALS

OwnOptions(u) ==
  IF IsLinux(cf_in.sys_platform) THEN DropLast(u["options"].v, 1) ELSE u["options"].v

HandedOver == m_k > 0 /\ pc = "rb_prefetch"

FromFlags == m_flags # NoneValue /\ ~Truthy(m_flags.benchmark_config)

\* C21: the unit that main hands to _run_benchmark has an integer repetition
\* count of at least 1, and every unit built from the flags has the value of
\* --runs as its repetition count.
C21_PositiveRuns ==
  /\ HandedOver => (TheUnit["runs"].type = "int" /\ TheUnit["runs"].v >= 1)
  /\ (FromFlags /\ m_config # NoneValue) =>
       \A k \in 1..Len(m_config.units) : m_config.units[k]["runs"] = PyInt(m_flags.runs)

\* every token of the command string starts with '--'
NoCommandToken(s) ==
  \A k \in 1..Len(shlex_split(s)) : StartsWithDashDash(shlex_split(s)[k])

\* the unit has no command string, or one without a command
InvalidUnit(u) ==
  \/ "command" \notin DOMAIN u
  \/ u["command"].type # "str"
  \/ NoCommandToken(u["command"].v)

FileGlobal ==
  IF "global_options" \in DOMAIN m_flags.config_file
  THEN m_flags.config_file["global_options"] ELSE EmptyDict

\* the execution has an invalid unit specification
InvalidSpecification ==
  IF Truthy(m_flags.benchmark_config)
  THEN \/ "units" \notin DOMAIN m_flags.config_file
       \/ \E k \in 1..Len(m_flags.config_file["units"]) :
            InvalidUnit(update(FileGlobal, m_flags.config_file["units"][k]))
  ELSE NoCommandToken(join(m_flags.bazel_args))

\* the events of main's two loops
IsLoopEvent(ev) == ev.e \in {"build_bazel_binary", "checkout", "run_benchmark", "returned"}

\* C23: an execution with an invalid unit specification ends with ValueError
\* when the config is built: no binary was built, no project commit checked
\* out, no _run_benchmark called, no Bazel instance made, no tool launched.
C23_InvalidRejectedFirst ==
  (m_flags # NoneValue /\ flag_checks(m_flags).ok /\ InvalidSpecification
     /\ pc # "m_config") =>
    /\ pc = "m_raised"
    /\ raised = "ValueError"
    /\ m_config = NoneValue
    /\ \A n \in 1..Len(m_log) : ~IsLoopEvent(m_log[n])
    /\ instances = 0
    /\ calls = <<>>

\* a config file whose first unit is valid and whose second is not
C23_Witness ==
  /\ pc = "m_raised"
  /\ raised = "ValueError"
  /\ Truthy(m_flags.benchmark_config)
  /\ "units" \in DOMAIN m_flags.config_file
  /\ Len(m_flags.config_file["units"]) = 2
  /\ ~InvalidUnit(update(FileGlobal, m_flags.config_file["units"][1]))
  /\ InvalidUnit(update(FileGlobal, m_flags.config_file["units"][2]))
  /\ m_log = <<>>

\* what the second loop of main did, in order
UnitEvents ==
  LET InLoop(ev) == ev.e \in {"checkout", "run_benchmark", "returned"}
  IN SelectSeq(m_log, InLoop)

UnitRan == m_k > 0 /\ pc \in {"rb_returned", "rb_raised"} /\ raised # "AssertionError"

\* C26: when the runs of a unit with N repetitions are over, _run_benchmark
\* has returned N records, and folding them gives every metric of the records
\* a sample of N observations whose i-th is the value of record i.
C26_FoldAligned ==
  UnitRan =>
    /\ pc = "rb_returned"
    /\ Len(rb_result.collected) = unit.runs
    /\ LET folded == fold(rb_result.collected, 1, EmptyCollected)
       IN /\ folded.ok
          /\ \A n \in 1..unit.runs :
               \A metric \in DOMAIN rb_result.collected[n] :
                 /\ Len(folded.value[metric]) = unit.runs
                 /\ folded.value[metric][n] = rb_result.collected[n][metric]

\* all units are processed: main is at line 664 or beyond
AllProcessed == m_config # NoneValue /\ pc \in {"cs_loop", "cs_raised"}

\* C28: when all units are processed, data and csv_data hold one entry per
\* unit, in unit order, under the unit's (identifier, project commit) key.
C28_OneEntryPerUnit ==
  AllProcessed =>
    /\ Len(m_data) = Len(m_config.units)
    /\ Len(m_csv_data) = Len(m_config.units)
    /\ \A k \in 1..Len(m_config.units) :
         /\ m_data[k].key = <<bazel_identifier_of(m_config.units[k]),
                              m_config.units[k]["project_commit"].v>>
         /\ m_csv_data[k].key = m_data[k].key

\* ----------------------------------------------------- profile path claim
\* the (tool identifier, project commit, run index) triple of a run
TripleOf(r) == <<r.bazel_identifier, r.project_commit, r.run_number>>

\* C27: in one run group two runs with different (tool identifier, project
\* commit, run index) triples get different profile paths.
C27_PathsDistinct ==
  (pf_out # NotCalled /\ TripleOf(pf_in[1]) # TripleOf(pf_in[2])) =>
    pf_out[1] # pf_out[2]

\* ---------------------------------------------------------------------------
\* C29, C30: the server pid of an invoker instance
\* ---------------------------------------------------------------------------

AfterLaunch == {j \in 1..Len(events) : \E k \in EventsOf("launch") : k < j}

====
